---- MODULE Spec2Model ----
(***************************************************************************)
(* A model of the phosphor-icons server: the version range parser          *)
(* (IconReleaseQuery::from_str), the query filter compiler                 *)
(* (Db::build_condition_from_params, Db::build_order_from_params), the     *)
(* store reads that evaluate the compiled condition (Db::get_icons), the   *)
(* deserialization of a GET /icons request, the decoder of the external    *)
(* table's rows (Icon::try_from(Row)), the sync pass that upserts the     *)
(* decoded rows (TableClient::sync, AppState::sync_table, Db::upsert_icon),*)
(* the svgs table (Db::upsert_svg, Db::delete_icon), the handlers with the *)
(* lock around the store handle, and the start of the service (main,       *)
(* AppState::init, AppState::sync_assets).                                 *)
(*                                                                         *)
(* Strings are sequences of one-character strings, so that splitting,      *)
(* trimming, number parsing and LIKE matching are computed character by    *)
(* character as the code computes them. In the cells of the external table *)
(* and in the list parameters of a request a word without blank and comma  *)
(* is written as one piece.                                                *)
(***************************************************************************)
EXTENDS Integers, Sequences, FiniteSets, TLC

VARIABLES
    input,    \* the version range string of the request being written
    parsed,   \* what IconReleaseQuery::from_str made of it
    icons,    \* the rows of the icons table
    query,    \* the IconQuery of the request at hand
    result,   \* what Db::get_icons returned for it
    request,  \* the query string parameters of the GET /icons request at hand
    response, \* what the service answered to it
    table_row, \* a row of the external table
    decoded,  \* what Icon::try_from made of it
    source,   \* the pages the external table answers a sync pass with
    sync,     \* where the sync pass is
    page_token, \* TableClient::sync: the continuation token
    batch,    \* TableClient::sync: the icons decoded so far
    cursor,   \* AppState::sync_table: the icons of the batch upserted so far
    seen,     \* the rids Db::upsert_icon was called with
    last_upsert, \* the last call of Db::upsert_icon: its icon and its result
    svgs,     \* the rows of the svgs table
    last_svg, \* the last call of Db::upsert_svg: its svg and its result
    lock,     \* AppState::db, the Mutex around the store handle
    handlers, \* the request handlers: endpoint, worker thread, position, answer
    boot,     \* where main is
    env,      \* PHOSPHOR_TABLE_SYNC and PHOSPHOR_ASSETS_SYNC
    file_cursor \* AppState::sync_assets: the files handled so far

parseVars == <<input, parsed>>

queryVars == <<query, result>>

requestVars == <<request, response>>

decodeVars == <<table_row, decoded>>

syncVars == <<source, sync, page_token, batch, cursor, seen, last_upsert>>

svgVars == <<svgs, last_svg>>

serveVars == <<lock, handlers>>

startVars == <<boot, env, file_cursor>>

vars ==
    <<parseVars, icons, svgVars, queryVars, requestVars, decodeVars, syncVars, serveVars,
      startVars>>

(***************************************************************************)
(* Bounds of the model.                                                    *)
(***************************************************************************)
\* longest version range string a client sends
MaxLen == 7

\* most fields of an IconQuery that one request sets
MaxClauses == 2

\* the characters a version range string is made of: a digit, the dot, a
\* letter (never part of a number) and the blank (trimmed around a bound)
Alphabet == {"1", ".", "x", " "}

None == [kind |-> "None"]

Some(v) == [kind |-> "Some", val |-> v]

(***************************************************************************)
(* str helpers of the Rust standard library, as the parser uses them.      *)
(***************************************************************************)
IsDigit(c) == c \in {"0", "1", "2", "3", "4", "5", "6", "7", "8", "9"}

DigitVal(c) ==
    CASE c = "0" -> 0 [] c = "1" -> 1 [] c = "2" -> 2 [] c = "3" -> 3
      [] c = "4" -> 4 [] c = "5" -> 5 [] c = "6" -> 6 [] c = "7" -> 7
      [] c = "8" -> 8 [] c = "9" -> 9

\* str::trim: drops the leading and the trailing white space
RECURSIVE trim_start(_)
trim_start(s) ==
    IF s # <<>> /\ Head(s) = " " THEN trim_start(Tail(s)) ELSE s

RECURSIVE trim_end(_)
trim_end(s) ==
    IF s # <<>> /\ s[Len(s)] = " " THEN trim_end(SubSeq(s, 1, Len(s) - 1)) ELSE s

trim(s) == trim_end(trim_start(s))

\* str::split_once(".."): the text before and after the FIRST "..", if any
split_once(s) ==
    LET hits == {i \in 1..(Len(s) - 1) : s[i] = "." /\ s[i + 1] = "."}
    IN  IF hits = {}
        THEN None
        ELSE LET i == CHOOSE h \in hits : \A k \in hits : h <= k
             IN  Some(<<SubSeq(s, 1, i - 1), SubSeq(s, i + 2, Len(s))>>)

\* the value of a run of decimal digits
RECURSIVE DigitsVal(_)
DigitsVal(ds) ==
    IF ds = <<>> THEN 0
    ELSE 10 * DigitsVal(SubSeq(ds, 1, Len(ds) - 1)) + DigitVal(ds[Len(ds)])

\* a fraction's digits without the trailing zeros, which do not change it
RECURSIVE StripZeros(_)
StripZeros(ds) ==
    IF ds # <<>> /\ ds[Len(ds)] = "0" THEN StripZeros(SubSeq(ds, 1, Len(ds) - 1)) ELSE ds

\* A decimal number: its integer part and the digits of its fraction.
Num(int, frac) == [int |-> int, frac |-> StripZeros(frac)]

\* str::parse::<f64> on the characters of Alphabet: digits with at most one
\* dot and at least one digit ("1.", ".1" and "1.1" are numbers, "." is
\* not); no white space is skipped; the empty string and everything else
\* fail. Signs, exponents, "inf" and "nan" are not written with Alphabet.
parse_f64(t) ==
    LET dots == {i \in 1..Len(t) : t[i] = "."}
    IN  IF t = <<>>
        THEN [ok |-> FALSE, err |-> "cannot parse float from empty string"]
        ELSE IF /\ \A i \in 1..Len(t) : IsDigit(t[i]) \/ t[i] = "."
                /\ Cardinality(dots) <= 1
                /\ \E i \in 1..Len(t) : IsDigit(t[i])
        THEN LET d == IF dots = {} THEN Len(t) + 1 ELSE CHOOSE i \in dots : TRUE
             IN  [ok |-> TRUE,
                  val |-> Num(DigitsVal(SubSeq(t, 1, d - 1)), SubSeq(t, d + 1, Len(t)))]
        ELSE [ok |-> FALSE, err |-> "invalid float literal"]

(***************************************************************************)
(* IconReleaseQuery and its parser.                                        *)
(***************************************************************************)
Exact(v) == [kind |-> "Exact", v |-> v]

Range(a, b) == [kind |-> "Range", a |-> a, b |-> b]

LessThanOrEqual(v) == [kind |-> "LessThanOrEqual", v |-> v]

GraterThanOrEqual(v) == [kind |-> "GraterThanOrEqual", v |-> v]

Err(e) == [kind |-> "Err", msg |-> <<"Invalid number: ", e>>]

\* from_str with the two open-ended arms exchanged
from_str_swapped(s) ==
    LET sp == split_once(s)
    IN  IF sp.kind = "Some"
        THEN LET a == trim(sp.val[1])
                 b == trim(sp.val[2])
                 pa == parse_f64(a)
                 pb == parse_f64(b)
             IN  IF a = <<>>
                 THEN IF pb.ok THEN GraterThanOrEqual(pb.val) ELSE Err(pb.err)
                 ELSE IF b = <<>>
                 THEN IF pa.ok THEN LessThanOrEqual(pa.val) ELSE Err(pa.err)
                 ELSE IF ~pa.ok THEN Err(pa.err)
                 ELSE IF ~pb.ok THEN Err(pb.err)
                 ELSE Range(pa.val, pb.val)
        ELSE LET p == parse_f64(s)
             IN  IF p.ok THEN Exact(p.val) ELSE Err(p.err)

\* from_str that gives up on an upper bound it cannot parse and keeps the
\* lower one
from_str_lenient(s) ==
    LET sp == split_once(s)
    IN  IF sp.kind = "Some"
        THEN LET a == trim(sp.val[1])
                 b == trim(sp.val[2])
                 pa == parse_f64(a)
                 pb == parse_f64(b)
             IN  IF a = <<>>
                 THEN IF pb.ok THEN LessThanOrEqual(pb.val) ELSE Err(pb.err)
                 ELSE IF b = <<>>
                 THEN IF pa.ok THEN GraterThanOrEqual(pa.val) ELSE Err(pa.err)
                 ELSE IF ~pa.ok THEN Err(pa.err)
                 ELSE IF ~pb.ok THEN GraterThanOrEqual(pa.val)
                 ELSE Range(pa.val, pb.val)
        ELSE LET p == parse_f64(s)
             IN  IF p.ok THEN Exact(p.val) ELSE Err(p.err)

\* IconReleaseQuery::from_str
from_str(s) ==
    LET sp == split_once(s)
    IN  IF sp.kind = "Some"
        THEN LET a == trim(sp.val[1])
                 b == trim(sp.val[2])
                 pa == parse_f64(a)
                 pb == parse_f64(b)
             IN  IF a = <<>>
                 THEN IF pb.ok THEN LessThanOrEqual(pb.val) ELSE Err(pb.err)
                 ELSE IF b = <<>>
                 THEN IF pa.ok THEN GraterThanOrEqual(pa.val) ELSE Err(pa.err)
                 ELSE IF ~pa.ok THEN Err(pa.err)
                 ELSE IF ~pb.ok THEN Err(pb.err)
                 ELSE Range(pa.val, pb.val)
        ELSE LET p == parse_f64(s)
             IN  IF p.ok THEN Exact(p.val) ELSE Err(p.err)

(***************************************************************************)
(* Numbers: the order of two decimal numbers.                              *)
(***************************************************************************)
\* whether fraction digits x are at most fraction digits y
RECURSIVE FracLe(_, _)
FracLe(x, y) ==
    IF x = <<>> THEN TRUE
    ELSE IF y = <<>> THEN FALSE
    ELSE IF DigitVal(Head(x)) # DigitVal(Head(y)) THEN DigitVal(Head(x)) < DigitVal(Head(y))
    ELSE FracLe(Tail(x), Tail(y))

NumLe(x, y) == x.int < y.int \/ (x.int = y.int /\ FracLe(x.frac, y.frac))

(***************************************************************************)
(* The enums of a query and the text they are compared as.                 *)
(***************************************************************************)
\* impl Display for IconStatus
status_to_string(s) ==
    CASE s = "Backlog" -> "Backlog"
      [] s = "Designing" -> "Designing"
      [] s = "Designed" -> "Designed"
      [] s = "Implemented" -> "Implemented"
      [] s = "Deprecated" -> "Deprecated"
      [] s = "None" -> "None"

\* impl Display for Category
category_to_string(c) ==
    CASE c = "Arrows" -> "Arrows"
      [] c = "Brand" -> "Brand"
      [] c = "Commerce" -> "Commerce"
      [] c = "Communication" -> "Communication"
      [] c = "Design" -> "Design"
      [] c = "Development" -> "Development"
      [] c = "Editor" -> "Editor"
      [] c = "Finance" -> "Finance"
      [] c = "Games" -> "Games"
      [] c = "Office" -> "Office"
      [] c = "Health" -> "Health"
      [] c = "Map" -> "Map"
      [] c = "Media" -> "Media"
      [] c = "Nature" -> "Nature"
      [] c = "Objects" -> "Objects"
      [] c = "People" -> "People"
      [] c = "System" -> "System"
      [] c = "Weather" -> "Weather"
      [] c = "Unknown" -> "Unknown"

\* status.iter().map(|s| s.to_string())
StatusStrings(seq) == [i \in 1..Len(seq) |-> status_to_string(seq[i])]

\* category.iter().map(|c| c.to_string()).collect()
CategoryStrings(seq) == [i \in 1..Len(seq) |-> category_to_string(seq[i])]

Elems(seq) == {seq[i] : i \in 1..Len(seq)}

(***************************************************************************)
(* IconQuery.                                                              *)
(***************************************************************************)
Fields ==
    {"name", "released", "published", "updated", "deprecated",
     "status", "category", "tags", "order", "dir"}

\* IconQuery::default(): no field is set
IconQueryDefault == [f \in Fields |-> None]

\* the builder methods: each sets one field
with_field(q, f, v) == [q EXCEPT ![f] = Some(v)]

\* IconQuery::new()
IconQueryNew == with_field(IconQueryDefault, "published", "True")

\* the number of fields a query sets
Clauses(q) == Cardinality({f \in Fields : q[f] # None})

(***************************************************************************)
(* The condition a query compiles to: the expressions cond.add collected,  *)
(* all of which a row has to satisfy (Condition::all).                     *)
(***************************************************************************)
\* str::trim_matches('*')
RECURSIVE trim_matches_start(_)
trim_matches_start(s) ==
    IF s # <<>> /\ Head(s) = "*" THEN trim_matches_start(Tail(s)) ELSE s

RECURSIVE trim_matches_end(_)
trim_matches_end(s) ==
    IF s # <<>> /\ s[Len(s)] = "*"
    THEN trim_matches_end(SubSeq(s, 1, Len(s) - 1))
    ELSE s

trim_matches(s) == trim_matches_end(trim_matches_start(s))

starts_with_star(s) == s # <<>> /\ Head(s) = "*"

ends_with_star(s) == s # <<>> /\ s[Len(s)] = "*"

\* whether the name makes build_condition_from_params return early
NameReturnsEarly(q) ==
    /\ q.name # None
    /\ starts_with_star(q.name.val) \/ ends_with_star(q.name.val)
    /\ trim_matches(q.name.val) = <<>>

\* the expression of the name
NameCond(q) ==
    IF q.name = None THEN <<>>
    ELSE LET name == q.name.val
         IN  IF starts_with_star(name) \/ ends_with_star(name)
             THEN <<[op |-> "like", col |-> "name",
                     pat |-> <<"%">> \o trim_matches(name) \o <<"%">>]>>
             ELSE <<[op |-> "eq", col |-> "name", val |-> name]>>

\* the expression of the published tri-state
PublishedCond(q) ==
    IF q.published = None \/ q.published = Some("True")
    THEN <<[op |-> "eq", col |-> "published", val |-> TRUE]>>
    ELSE IF q.published = Some("False")
    THEN <<[op |-> "eq", col |-> "published", val |-> FALSE]>>
    ELSE <<>>

\* the expression of one version filter on its column
VersionCond(filter, column) ==
    IF filter = None THEN <<>>
    ELSE LET r == filter.val
         IN  CASE r.kind = "Exact" ->
                    <<[op |-> "eq", col |-> column, val |-> r.v]>>
               [] r.kind = "Range" ->
                    <<[op |-> "between", col |-> column, a |-> r.a, b |-> r.b]>>
               [] r.kind = "LessThanOrEqual" ->
                    <<[op |-> "lte", col |-> column, val |-> r.v]>>
               [] r.kind = "GraterThanOrEqual" ->
                    <<[op |-> "gte", col |-> column, val |-> r.v]>>

ReleasedCond(q) == VersionCond(q.released, "released_at")

\* the updated filter compiled onto the column of the released filter
UpdatedCondOnReleasedAt(q) == VersionCond(q.updated, "released_at")

UpdatedCond(q) == VersionCond(q.updated, "last_updated_at")

DeprecatedCond(q) == VersionCond(q.deprecated, "deprecated_at")

StatusCond(q) ==
    IF q.status = None THEN <<>>
    ELSE <<[op |-> "is_in", col |-> "status",
            vals |-> StatusStrings(q.status.val)]>>

\* the category filter tested against the tags column
CategoryCondOnTags(q) ==
    IF q.category = None THEN <<>>
    ELSE <<[op |-> "overlap", col |-> "tags",
            vals |-> CategoryStrings(q.category.val)]>>

CategoryCond(q) ==
    IF q.category = None THEN <<>>
    ELSE <<[op |-> "overlap", col |-> "search_categories",
            vals |-> CategoryStrings(q.category.val)]>>

TagsCond(q) ==
    IF q.tags = None THEN <<>>
    ELSE <<[op |-> "overlap", col |-> "tags", vals |-> q.tags.val]>>

\* Db::build_condition_from_params
build_condition_from_params(q) ==
    IF NameReturnsEarly(q)
    THEN <<>>
    ELSE NameCond(q) \o PublishedCond(q) \o ReleasedCond(q) \o UpdatedCond(q)
            \o DeprecatedCond(q) \o StatusCond(q) \o CategoryCond(q) \o TagsCond(q)

\* the order column with Release sorted by the last update
order_column_by_update(q) ==
    CASE q.order = None \/ q.order = Some("Name") -> "name"
      [] q.order = Some("Status") -> "status"
      [] q.order = Some("Release") -> "last_updated_at"
      [] q.order = Some("Code") -> "code"

\* Db::build_order_from_params
order_column(q) ==
    CASE q.order = None \/ q.order = Some("Name") -> "name"
      [] q.order = Some("Status") -> "status"
      [] q.order = Some("Release") -> "released_at"
      [] q.order = Some("Code") -> "code"

order_direction(q) ==
    CASE q.dir = None \/ q.dir = Some("Asc") -> "Asc"
      [] q.dir = Some("Desc") -> "Desc"

build_order_from_params(q) == <<order_column(q), order_direction(q)>>

(***************************************************************************)
(* The store's evaluation of a condition on a row.                         *)
(***************************************************************************)
\* text LIKE pattern: % is any run of characters, _ any one character
RECURSIVE Like(_, _)
Like(s, pat) ==
    IF pat = <<>> THEN s = <<>>
    ELSE IF Head(pat) = "%"
    THEN Like(s, Tail(pat)) \/ (s # <<>> /\ Like(Tail(s), pat))
    ELSE /\ s # <<>>
         /\ Head(pat) = "_" \/ Head(pat) = Head(s)
         /\ Like(Tail(s), Tail(pat))

\* a comparison with a NULL column is not true
NotNull(v) == v # None

\* one expression on one row
EvalExpr(e, row) ==
    LET v == row[e.col]
    IN  CASE e.op = "like" -> Like(v, e.pat)
          [] e.op = "eq" ->
                IF e.col \in {"name", "published"} THEN v = e.val
                ELSE NotNull(v) /\ v.val = e.val
          [] e.op = "between" ->
                NotNull(v) /\ NumLe(e.a, v.val) /\ NumLe(v.val, e.b)
          [] e.op = "lte" -> NotNull(v) /\ NumLe(v.val, e.val)
          [] e.op = "gte" -> NotNull(v) /\ NumLe(e.val, v.val)
          [] e.op = "is_in" -> v \in Elems(e.vals)
          [] e.op = "overlap" -> Elems(v) \cap Elems(e.vals) # {}

\* Condition::all(): every expression holds
EvalCond(cond, row) == \A i \in 1..Len(cond) : EvalExpr(cond[i], row)

\* Db::get_icons: the rows the compiled condition keeps, and the ORDER BY
get_icons(rows, q) ==
    [kind |-> "Ok",
     ids |-> {r.id : r \in {x \in rows : EvalCond(build_condition_from_params(q), x)}},
     order_by |-> build_order_from_params(q)]

(***************************************************************************)
(* The rows of the icons table the queries are run against.                *)
(***************************************************************************)
V15 == Num(1, <<"5">>)

V20 == Num(2, <<>>)

Row(id, name, published, status, category, scats, tags, rel, upd, dep) ==
    [id |-> id, rid |-> <<"r", id>>, name |-> name, alias |-> None, code |-> None,
     status |-> status, category |-> category, search_categories |-> scats,
     tags |-> tags, notes |-> None, released_at |-> rel, last_updated_at |-> upd,
     deprecated_at |-> dep, published |-> published]

NameA == <<"a">>

NameAB == <<"a", "b">>

NameBA == <<"b", "a">>

NameB == <<"b">>

\* Tables of four icons; in each the names and the rids are unique.
Stores ==
    { { Row(1, NameA, TRUE, "Implemented", "Arrows", <<"Arrows">>, <<"t1">>,
            Some(V15), Some(V20), None),
        Row(2, NameAB, FALSE, "Backlog", "Brands", <<"Brand">>, <<"t2">>,
            Some(V20), None, Some(V15)),
        Row(3, NameBA, TRUE, "Designed", "Arrows", <<"Brand", "Arrows">>, <<"t1", "t2">>,
            None, Some(V15), Some(V20)),
        Row(4, NameB, FALSE, "None", "Unknown", <<>>, <<>>,
            None, None, None) },
      { Row(1, NameA, FALSE, "Backlog", "Arrows", <<"Brand">>, <<"t2">>,
            Some(V20), Some(V15), Some(V15)),
        Row(2, NameAB, TRUE, "Backlog", "Brands", <<"Arrows">>, <<"t1", "t2">>,
            Some(V15), Some(V15), Some(V20)),
        Row(3, NameBA, FALSE, "Implemented", "Unknown", <<>>, <<"t1">>,
            Some(V15), Some(V20), Some(V20)),
        Row(4, NameB, TRUE, "Designed", "Brands", <<"Arrows", "Brand">>, <<>>,
            Some(V20), Some(V20), None) },
      { Row(1, NameA, TRUE, "Designed", "Brands", <<"Arrows", "Brand">>, <<>>,
            None, Some(V20), Some(V15)),
        Row(2, NameAB, TRUE, "Implemented", "Arrows", <<>>, <<"t1">>,
            Some(V20), Some(V20), Some(V20)),
        Row(3, NameBA, TRUE, "Backlog", "Brands", <<"Arrows">>, <<"t2">>,
            Some(V15), None, Some(V15)),
        Row(4, NameB, TRUE, "Backlog", "Arrows", <<"Brand">>, <<"t1", "t2">>,
            Some(V15), Some(V15), None) } }

(***************************************************************************)
(* The values a request gives the fields of its IconQuery.                 *)
(***************************************************************************)
QueryNames ==
    { <<"a">>, <<"a", "b">>, <<"a", "*">>, <<"*", "a">>, <<"*", "a", "*">>,
      <<"*", "b">>, <<"*">>, <<"*", "*">> }

Versions == {V15, V20}

ReleaseQueries ==
    {Exact(v) : v \in Versions}
        \cup {Range(a, b) : <<a, b>> \in Versions \X Versions}
        \cup {LessThanOrEqual(v) : v \in Versions}
        \cup {GraterThanOrEqual(v) : v \in Versions}

StatusLists == {<<>>, <<"Backlog">>, <<"Designed">>, <<"Backlog", "Designed">>}

CategoryLists == {<<>>, <<"Arrows">>, <<"Brand">>, <<"Arrows", "Brand">>}

TagLists == {<<>>, <<"t1">>, <<"t2">>, <<"t1", "t2">>}

FieldValues(f) ==
    CASE f = "name" -> QueryNames
      [] f = "published" -> {"True", "False", "Any"}
      [] f \in {"released", "updated", "deprecated"} -> ReleaseQueries
      [] f = "status" -> StatusLists
      [] f = "category" -> CategoryLists
      [] f = "tags" -> TagLists
      [] f = "order" -> {"Name", "Status", "Release", "Code"}
      [] f = "dir" -> {"Asc", "Desc"}

NoResult == [kind |-> "NoResult"]

(***************************************************************************)
(* The external table (table.rs): its columns, the cells of a row and the  *)
(* f64 values of the number cells.                                         *)
(***************************************************************************)
\* i32::MAX, where `as i32` saturates
I32Max == 2147483647

I32Min == (-I32Max) - 1

TableColumns ==
    {"Rid", "Name", "Status", "Category", "SearchCategories", "Tags", "Notes",
     "ReleasedAt", "LastUpdatedAt", "DeprecatedAt", "Published", "Alias", "Code"}

\* TableColumn::as_str
as_str(c) ==
    CASE c = "Rid" -> "RID"
      [] c = "Name" -> "Name"
      [] c = "Status" -> "Status"
      [] c = "Category" -> "Category"
      [] c = "SearchCategories" -> "Search Categories"
      [] c = "Tags" -> "Tags"
      [] c = "Notes" -> "Notes"
      [] c = "ReleasedAt" -> "Release"
      [] c = "LastUpdatedAt" -> "Last Updated"
      [] c = "DeprecatedAt" -> "Deprecated"
      [] c = "Published" -> "Published"
      [] c = "Alias" -> "Alias"
      [] c = "Code" -> "Codepoint"

\* prost_types::value::Kind, as the decoder matches on it
StringValue(v) == [kind |-> "StringValue", v |-> v]

NumberValue(v) == [kind |-> "NumberValue", v |-> v]

BoolValue(v) == [kind |-> "BoolValue", v |-> v]

ListValue(vs) == [kind |-> "ListValue", values |-> vs]

NullValue == [kind |-> "NullValue"]

\* a column the row holds no cell for
Absent == [kind |-> "Absent"]

\* row.values.get(key)
values_get(r, key) == IF r[key] = Absent THEN None ELSE Some(r[key])

\* The f64 values of the number cells: Num(int, frac) for the values from 0
\* to i32::MAX, Neg(n) for -n, Huge for a finite value above i32::MAX (4e9,
\* say) and NaN.
Neg(n) == [neg |-> n]

Huge == [kind |-> "Huge"]

NaN == [kind |-> "NaN"]

\* as_i32 that rounds down instead of toward zero
as_i32_floor(v) ==
    CASE v = NaN -> 0
      [] v = Huge -> I32Max
      [] "neg" \in DOMAIN v -> IF v.neg.frac = <<>> THEN 0 - v.neg.int ELSE (0 - v.neg.int) - 1
      [] OTHER -> v.int


\* `*v as i32`: the fraction is dropped (rounding toward zero), a value out
\* of the range of i32 becomes the nearest bound and NaN becomes 0
as_i32(v) ==
    CASE v = NaN -> 0
      [] v = Huge -> I32Max
      [] "neg" \in DOMAIN v -> 0 - v.neg.int
      [] OTHER -> v.int

(***************************************************************************)
(* str helpers of the decoder and of deserialize_csv.                      *)
(***************************************************************************)
\* str::split(pat): the segments between the matches of pat, left to right;
\* a string without a match, the empty one too, is one segment
RECURSIVE split(_, _)
split(s, pat) ==
    LET hits == {i \in 1..(Len(s) - Len(pat) + 1) : SubSeq(s, i, i + Len(pat) - 1) = pat}
    IN  IF hits = {}
        THEN <<s>>
        ELSE LET i == CHOOSE h \in hits : \A k \in hits : h <= k
             IN  <<SubSeq(s, 1, i - 1)>> \o split(SubSeq(s, i + Len(pat), Len(s)), pat)

RECURSIVE strip_leading_zeros(_)
strip_leading_zeros(ds) ==
    IF ds # <<>> /\ Head(ds) = "0" THEN strip_leading_zeros(Tail(ds)) ELSE ds

I32MaxDigits == <<"2", "1", "4", "7", "4", "8", "3", "6", "4", "7">>

I32MinDigits == <<"2", "1", "4", "7", "4", "8", "3", "6", "4", "8">>

\* x <= y for two digit strings of one length
RECURSIVE DigitsLe(_, _)
DigitsLe(x, y) ==
    IF x = <<>> THEN TRUE
    ELSE IF DigitVal(Head(x)) # DigitVal(Head(y)) THEN DigitVal(Head(x)) < DigitVal(Head(y))
    ELSE DigitsLe(Tail(x), Tail(y))

\* str::parse::<i32>: an optional sign and at least one digit, nothing else
\* (no blank, no dot), and a value that fits i32
parse_i32(t) ==
    LET signed == t # <<>> /\ Head(t) \in {"-", "+"}
        neg == t # <<>> /\ Head(t) = "-"
        ds == IF signed THEN Tail(t) ELSE t
        sig == strip_leading_zeros(ds)
    IN  IF ds = <<>>
        THEN [ok |-> FALSE, err |-> "cannot parse integer from empty string"]
        ELSE IF \E i \in 1..Len(ds) : ~IsDigit(ds[i])
        THEN [ok |-> FALSE, err |-> "invalid digit found in string"]
        ELSE IF neg /\ sig = I32MinDigits
        THEN [ok |-> TRUE, val |-> I32Min]
        ELSE IF Len(sig) > 10 \/ (Len(sig) = 10 /\ ~DigitsLe(sig, I32MaxDigits))
        THEN [ok |-> FALSE, err |-> "number too large to fit in target type"]
        ELSE [ok |-> TRUE, val |-> IF neg THEN 0 - DigitsVal(sig) ELSE DigitsVal(sig)]

(***************************************************************************)
(* The enums of an icon and their serde names.                             *)
(***************************************************************************)
IconStatuses ==
    {"Backlog", "Designing", "Designed", "Implemented", "Deprecated", "None"}

FigmaCategories ==
    {"Arrows", "Brands", "Commerce", "Communication", "Design", "Development",
     "Education", "Games", "HealthAndWellness", "MapsAndTravel", "MathAndFinance",
     "Media", "OfficeAndEditing", "People", "SecurityAndWarnings",
     "SystemAndDevices", "Time", "WeatherAndNature", "Unknown"}

Categories ==
    {"Arrows", "Brand", "Commerce", "Communication", "Design", "Development",
     "Editor", "Finance", "Games", "Office", "Health", "Map", "Media", "Nature",
     "Objects", "People", "System", "Weather", "Unknown"}

\* the serde name of a FigmaCategory: the variant's name, or its rename
figma_category_name(v) ==
    CASE v = "HealthAndWellness" -> <<"Health", " ", "&", " ", "Wellness">>
      [] v = "MapsAndTravel" -> <<"Maps", " ", "&", " ", "Travel">>
      [] v = "MathAndFinance" -> <<"Math", " ", "&", " ", "Finance">>
      [] v = "OfficeAndEditing" -> <<"Office", " ", "&", " ", "Editing">>
      [] v = "SecurityAndWarnings" -> <<"Security", " ", "&", " ", "Warnings">>
      [] v = "SystemAndDevices" -> <<"System", " ", "&", " ", "Devices">>
      [] v = "WeatherAndNature" -> <<"Weather", " ", "&", " ", "Nature">>
      [] OTHER -> <<v>>

\* serde_plain::from_str::<IconStatus>: the variant of that name, and the
\* #[serde(other)] variant None for every other string
serde_plain_status(s) ==
    IF \E v \in IconStatuses : <<v>> = s
    THEN CHOOSE v \in IconStatuses : <<v>> = s
    ELSE "None"

\* serde_plain_figma_category without the renames of the variants
serde_plain_figma_category_unrenamed(s) ==
    IF \E v \in FigmaCategories : <<v>> = s
    THEN CHOOSE v \in FigmaCategories : <<v>> = s
    ELSE "Unknown"


\* serde_plain::from_str::<FigmaCategory>
serde_plain_figma_category(s) ==
    IF \E v \in FigmaCategories : figma_category_name(v) = s
    THEN CHOOSE v \in FigmaCategories : figma_category_name(v) = s
    ELSE "Unknown"

\* serde_plain::from_str::<Category>
serde_plain_category(s) ==
    IF \E v \in Categories : <<v>> = s
    THEN CHOOSE v \in Categories : <<v>> = s
    ELSE "Unknown"

(***************************************************************************)
(* The decoder of a row: impl TryFrom<Row> for Icon and its cell readers.  *)
(***************************************************************************)
\* as_string that also reads a number cell
as_string_or_number(value) ==
    IF value.kind \in {"StringValue", "NumberValue"} THEN Some(value.v) ELSE None


as_string(value) ==
    IF value.kind = "StringValue" THEN Some(value.v) ELSE None

\* the StringValue elements of a list, in order (the filter_map of
\* as_string_array and as_search_categories)
RECURSIVE list_strings(_)
list_strings(vs) ==
    IF vs = <<>> THEN <<>>
    ELSE (IF Head(vs).kind = "StringValue" THEN <<Head(vs).v>> ELSE <<>>)
            \o list_strings(Tail(vs))

as_string_array(value) ==
    CASE value.kind = "StringValue" ->
            LET segs == split(value.v, <<",", " ">>)
            IN  [i \in 1..Len(segs) |-> trim(segs[i])]
      [] value.kind = "ListValue" -> list_strings(value.values)
      [] OTHER -> <<>>

as_float(value) ==
    CASE value.kind = "NumberValue" -> Some(value.v)
      [] value.kind = "StringValue" ->
            LET p == parse_f64(value.v) IN IF p.ok THEN Some(p.val) ELSE None
      [] OTHER -> None

as_int(value) ==
    CASE value.kind = "NumberValue" -> Some(as_i32(value.v))
      [] value.kind = "StringValue" ->
            LET p == parse_i32(value.v) IN IF p.ok THEN Some(p.val) ELSE None
      [] OTHER -> None

as_bool(value) ==
    IF value.kind = "BoolValue" THEN value.v ELSE FALSE

as_status(value) ==
    IF value.kind = "StringValue" THEN Some(serde_plain_status(value.v)) ELSE None

as_category(value) ==
    IF value.kind = "StringValue"
    THEN Some(serde_plain_figma_category(value.v))
    ELSE None

as_search_categories(value) ==
    IF value.kind = "ListValue"
    THEN LET ss == list_strings(value.values)
         IN  [i \in 1..Len(ss) |-> serde_plain_category(ss[i])]
    ELSE <<>>

\* TableClientError::ParseError
ParseError(m) == [kind |-> "ParseError", msg |-> m]

\* Icon::try_from(row)
try_from(r) ==
    LET cell(c) == values_get(r, as_str(c))
        opt_string(c) == IF cell(c) = None THEN None ELSE as_string(cell(c).val)
        opt_float(c) == IF cell(c) = None THEN None ELSE as_float(cell(c).val)
        rid == opt_string("Rid")
        name == opt_string("Name")
        status == IF cell("Status") = None THEN None ELSE as_status(cell("Status").val)
        figma_category ==
            IF cell("Category") = None THEN None ELSE as_category(cell("Category").val)
    IN  IF rid = None THEN ParseError("Missing RID")
        ELSE IF name = None THEN ParseError("Missing Name")
        ELSE [kind |-> "Ok",
              icon |->
                [id |-> 0,
                 rid |-> rid.val,
                 name |-> name.val,
                 alias |-> opt_string("Alias"),
                 code |-> IF cell("Code") = None THEN None ELSE as_int(cell("Code").val),
                 status |-> IF status = None THEN "None" ELSE status.val,
                 search_categories |->
                    IF cell("SearchCategories") = None
                    THEN <<>>
                    ELSE as_search_categories(cell("SearchCategories").val),
                 category |-> IF figma_category = None THEN "Unknown" ELSE figma_category.val,
                 tags |-> IF cell("Tags") = None THEN <<>> ELSE as_string_array(cell("Tags").val),
                 notes |-> opt_string("Notes"),
                 released_at |-> opt_float("ReleasedAt"),
                 last_updated_at |-> opt_float("LastUpdatedAt"),
                 deprecated_at |-> opt_float("DeprecatedAt"),
                 published |->
                    IF cell("Published") = None THEN FALSE ELSE as_bool(cell("Published").val)]]

(***************************************************************************)
(* The cells the rows of the external table are written with.              *)
(***************************************************************************)
\* most cells of a row that differ from the row of a plain icon
MaxCells == 2

\* the columns in the order try_from reads them
ColumnOrder ==
    <<"Rid", "Name", "Alias", "Code", "Status", "SearchCategories", "Category",
      "Tags", "Notes", "ReleasedAt", "LastUpdatedAt", "Published", "DeprecatedAt">>

\* one cell of each kind
CommonCells ==
    { StringValue(<<"x">>),
      NumberValue(V15),
      BoolValue(TRUE),
      ListValue(<<StringValue(<<"Arrows">>), NumberValue(V20), StringValue(<<"t2">>)>>),
      NullValue }

ColumnCells(c) ==
    CASE c = "Rid" -> {StringValue(<<>>), StringValue(<<"r", "2">>)}
      [] c = "Name" -> {StringValue(<<>>), StringValue(NameB)}
      [] c \in {"Alias", "Notes"} -> {StringValue(<<>>), StringValue(<<"n", " ", "n">>)}
      [] c = "Code" ->
            { NumberValue(Num(57818, <<>>)), NumberValue(Neg(V15)),
              NumberValue(Huge), NumberValue(NaN),
              StringValue(<<"5", "7", "8", "1", "8">>), StringValue(<<"-", "7">>),
              StringValue(<<"1", ".", "5">>), StringValue(<<" ", "7">>),
              StringValue(<<"4", "0", "0", "0", "0", "0", "0", "0", "0", "0">>),
              StringValue(<<>>) }
      [] c = "Status" ->
            { StringValue(<<"Backlog">>), StringValue(<<"backlog">>),
              StringValue(<<"Implemented">>), StringValue(<<"None">>),
              StringValue(<<>>) }
      [] c = "Category" ->
            { StringValue(<<"Arrows">>), StringValue(<<"arrows">>),
              StringValue(<<"Health", " ", "&", " ", "Wellness">>),
              StringValue(<<"HealthAndWellness">>), StringValue(<<"Unknown">>) }
      [] c = "SearchCategories" ->
            { ListValue(<<StringValue(<<"Arrows">>), StringValue(<<"Brand">>)>>),
              ListValue(<<StringValue(<<"Brand">>), StringValue(<<"brand">>)>>),
              ListValue(<<>>),
              StringValue(<<"Arrows", ",", " ", "Brand">>),
              StringValue(<<"Arrows">>) }
      [] c = "Tags" ->
            { ListValue(<<StringValue(<<"t1">>), StringValue(<<"t2">>)>>),
              ListValue(<<>>),
              StringValue(<<"t1", ",", " ", "t2">>),
              StringValue(<<"t1", ",", "t2">>),
              StringValue(<<"t1", ",", " ", " ", "t2">>),
              StringValue(<<>>) }
      [] c \in {"ReleasedAt", "LastUpdatedAt", "DeprecatedAt"} ->
            {NumberValue(V20), StringValue(<<"1", ".", "5">>), StringValue(<<>>)}
      [] c = "Published" ->
            { StringValue(<<"Y">>), StringValue(<<"y">>), StringValue(<<"N">>),
              StringValue(<<>>), BoolValue(FALSE) }

Cells(c) == CommonCells \cup ColumnCells(c) \cup {Absent}

\* the row of a plain icon: a rid and a name, no other cell
BaseRow ==
    [k \in {as_str(c) : c \in TableColumns} |->
        CASE k = "RID" -> StringValue(<<"r", "1">>)
          [] k = "Name" -> StringValue(NameA)
          [] OTHER -> Absent]

\* the places in ColumnOrder of the cells that differ from BaseRow's
Changed(r) ==
    {i \in 1..Len(ColumnOrder) : r[as_str(ColumnOrder[i])] # BaseRow[as_str(ColumnOrder[i])]}

NotDecoded == [kind |-> "NotDecoded"]

(***************************************************************************)
(* The deserialization of the query string of GET /icons into an IconQuery *)
(* (QsQuery<IconQuery>). A list parameter is written word by word: each    *)
(* label and each tag is one piece, next to the pieces "," and " ".        *)
(***************************************************************************)
\* most parameters of one request
MaxParams == 2

\* the parameters IconQuery reads; updated and deprecated are #[serde(skip)]
Params == <<"name", "v", "published", "status", "category", "tags", "order", "dir">>

\* a request without parameters
NoRequest == [p \in {Params[i] : i \in 1..Len(Params)} |-> None]

NoResponse == [kind |-> "NoResponse"]

DeOk(v) == [ok |-> TRUE, val |-> v]

DeErr(m) == [ok |-> FALSE, err |-> m]

\* the word a segment of a list parameter is made of
Word(seg) == IF seg = <<>> THEN "" ELSE seg[1]

\* impl FromStr for IconStatus: never an error
status_from_str(seg) ==
    DeOk(IF Word(seg) \in {"Backlog", "Designing", "Designed", "Implemented", "Deprecated"}
         THEN Word(seg)
         ELSE "None")

\* impl FromStr for Category: never an error
category_from_str(seg) ==
    DeOk(IF Word(seg) \in Categories \ {"Unknown"} THEN Word(seg) ELSE "Unknown")

\* impl FromStr for String
string_from_str(seg) == DeOk(Word(seg))

\* s.split(',').map(str::trim): the segments deserialize_csv parses
csv_segments(s) ==
    LET segs == split(s, <<",">>) IN [i \in 1..Len(segs) |-> trim(segs[i])]

\* deserialize_csv on the parses of the segments: all of them, or the error
deserialize_csv(parses) ==
    IF \E i \in 1..Len(parses) : ~parses[i].ok
    THEN DeErr("Failed to parse CSV")
    ELSE DeOk(Some([i \in 1..Len(parses) |-> parses[i].val]))

\* Deserialize of Ternary, OrderColumn and OrderDirection
\* (rename_all = "snake_case"): an unknown variant is an error
deserialize_ternary(s) ==
    CASE s = <<"true">> -> DeOk(Some("True"))
      [] s = <<"false">> -> DeOk(Some("False"))
      [] s = <<"any">> -> DeOk(Some("Any"))
      [] OTHER -> DeErr("unknown variant")

deserialize_order_column(s) ==
    CASE s = <<"name">> -> DeOk(Some("Name"))
      [] s = <<"status">> -> DeOk(Some("Status"))
      [] s = <<"release">> -> DeOk(Some("Release"))
      [] s = <<"code">> -> DeOk(Some("Code"))
      [] OTHER -> DeErr("unknown variant")

deserialize_order_direction(s) ==
    CASE s = <<"asc">> -> DeOk(Some("Asc"))
      [] s = <<"desc">> -> DeOk(Some("Desc"))
      [] OTHER -> DeErr("unknown variant")

deserialize_optional_icon_release_query(s) ==
    IF from_str(s).kind = "Err" THEN DeErr(from_str(s).msg) ELSE DeOk(Some(from_str(s)))

\* the deserializer of one field on the parameter's string
deserialize_field(p, s) ==
    CASE p = "name" -> DeOk(Some(s))
      [] p = "v" -> deserialize_optional_icon_release_query(s)
      [] p = "published" -> deserialize_ternary(s)
      [] p = "status" ->
            deserialize_csv([i \in 1..Len(csv_segments(s)) |-> status_from_str(csv_segments(s)[i])])
      [] p = "category" ->
            deserialize_csv([i \in 1..Len(csv_segments(s)) |-> category_from_str(csv_segments(s)[i])])
      [] p = "tags" ->
            deserialize_csv([i \in 1..Len(csv_segments(s)) |-> string_from_str(csv_segments(s)[i])])
      [] p = "order" -> deserialize_order_column(s)
      [] p = "dir" -> deserialize_order_direction(s)

\* the field of IconQuery a parameter is read into
field_of(p) == IF p = "v" THEN "released" ELSE p

\* Deserialize of IconQuery: the first error of a field, or the query with
\* every parameter's value; a field without parameter is None
deserialize_icon_query(req) ==
    LET de(p) == IF req[p] = None THEN DeOk(None) ELSE deserialize_field(p, req[p].val)
        failed == {i \in 1..Len(Params) : ~de(Params[i]).ok}
    IN  IF failed # {}
        THEN de(Params[CHOOSE i \in failed : \A j \in failed : i <= j])
        ELSE DeOk([f \in Fields |->
                    IF \E i \in 1..Len(Params) : field_of(Params[i]) = f
                    THEN de(CHOOSE p \in {Params[i] : i \in 1..Len(Params)} : field_of(p) = f).val
                    ELSE None])

\* the strings a client writes a parameter with
ParamValues(p) ==
    CASE p = "name" -> {<<"a">>, <<"a", "*">>}
      [] p = "v" ->
            { <<"1", ".", "5">>, <<"1", ".", "5", ".", ".">>,
              <<"1", ".", ".", "x">>, <<"x">> }
      [] p = "published" -> {<<"true">>, <<"any">>, <<"True">>, <<"yes">>}
      [] p = "status" ->
            { <<"Backlog">>, <<"Backlog", ",", " ", "Designed">>,
              <<"backlog">>, <<"Backlog", ",", "bogus">> }
      [] p = "category" -> {<<"Arrows">>, <<"Arrows", ",", "Brand">>, <<"bogus">>}
      [] p = "tags" -> {<<"t1">>, <<"t1", ",", "t2">>}
      [] p = "order" -> {<<"name">>, <<"release">>, <<"Release">>, <<"bogus">>}
      [] p = "dir" -> {<<"asc">>, <<"desc">>, <<"up">>}

(***************************************************************************)
(* The icons table as the sync pass writes it: the conversion of a decoded *)
(* icon into a row of the table and Db::upsert_icon.                       *)
(***************************************************************************)
\* impl Display for FigmaCategory
figma_category_to_string(c) ==
    CASE c = "HealthAndWellness" -> "Health & Wellness"
      [] c = "MapsAndTravel" -> "Maps & Travel"
      [] c = "MathAndFinance" -> "Math & Finance"
      [] c = "OfficeAndEditing" -> "Office & Editing"
      [] c = "SecurityAndWarnings" -> "Security & Warnings"
      [] c = "SystemAndDevices" -> "System & Devices"
      [] c = "WeatherAndNature" -> "Weather & Nature"
      [] OTHER -> c

\* icon.into(): the icons::Model of an Icon, field by field, the id too,
\* the enums as the text they display as
icon_into_model(icon) ==
    [id |-> icon.id,
     rid |-> icon.rid,
     name |-> icon.name,
     alias |-> icon.alias,
     code |-> icon.code,
     status |-> status_to_string(icon.status),
     category |-> figma_category_to_string(icon.category),
     search_categories |-> CategoryStrings(icon.search_categories),
     tags |-> icon.tags,
     notes |-> icon.notes,
     released_at |-> icon.released_at,
     last_updated_at |-> icon.last_updated_at,
     deprecated_at |-> icon.deprecated_at,
     published |-> icon.published]

\* the columns the ON CONFLICT (rid) clause of upsert_icon updates
UpdateColumns ==
    {"name", "status", "category", "search_categories", "tags", "notes",
     "released_at", "last_updated_at", "deprecated_at", "published", "alias", "code"}

\* the constraints of the icons table other than the one on rid: id is the
\* primary key and name is unique
IdTaken(rows, id) == \E r \in rows : r.id = id

\* a table without the unique constraint on name
NameNeverTaken(rows, name) == FALSE

NameTaken(rows, name) == \E r \in rows : r.name = name

DbErr(m) == [kind |-> "Err", msg |-> m]

\* Db::upsert_icon(icon) on the table rows: INSERT of every column of the
\* model (icon.into() sets every field of the ActiveModel, the id too) with
\* ON CONFLICT (rid) DO UPDATE of UpdateColumns; returns the table after it
\* and the result
upsert_icon(rows, icon) ==
    LET old == {r \in rows : r.rid = icon.rid}
    IN  IF old # {}
        THEN LET r == CHOOSE x \in old : TRUE
                 new == [f \in DOMAIN r |-> IF f \in UpdateColumns THEN icon[f] ELSE r[f]]
             IN  IF NameTaken(rows \ {r}, new.name)
                 THEN [rows |-> rows, res |-> DbErr("duplicate key value: icons.name")]
                 ELSE [rows |-> (rows \ {r}) \cup {new},
                       res |-> [kind |-> "Ok", last_insert_id |-> r.id]]
        ELSE IF IdTaken(rows, icon.id)
        THEN [rows |-> rows, res |-> DbErr("duplicate key value: icons.id")]
        ELSE IF NameTaken(rows, icon.name)
        THEN [rows |-> rows, res |-> DbErr("duplicate key value: icons.name")]
        ELSE [rows |-> rows \cup {icon},
              res |-> [kind |-> "Ok", last_insert_id |-> icon.id]]

(***************************************************************************)
(* The external table a sync pass reads: rows of three icons, in two       *)
(* versions that differ in every cell but the rid, and a row without name. *)
(***************************************************************************)
TableRow(rid, name, version) ==
    [k \in {as_str(c) : c \in TableColumns} |->
        CASE k = "RID" -> StringValue(rid)
          [] k = "Name" -> StringValue(name)
          [] k = "Status" ->
                StringValue(IF version = 1 THEN <<"Backlog">> ELSE <<"Implemented">>)
          [] k = "Category" -> StringValue(IF version = 1 THEN <<"Arrows">> ELSE <<"Brands">>)
          [] k = "Search Categories" ->
                ListValue(IF version = 1 THEN <<StringValue(<<"Arrows">>)>>
                          ELSE <<StringValue(<<"Brand">>), StringValue(<<"Arrows">>)>>)
          [] k = "Tags" ->
                IF version = 1 THEN ListValue(<<StringValue(<<"t1">>)>>)
                ELSE StringValue(<<"t1", ",", " ", "t2">>)
          [] k = "Notes" -> IF version = 1 THEN Absent ELSE StringValue(<<"n">>)
          [] k = "Release" -> NumberValue(IF version = 1 THEN V15 ELSE V20)
          [] k = "Last Updated" -> IF version = 1 THEN Absent ELSE NumberValue(V20)
          [] k = "Deprecated" -> IF version = 1 THEN Absent ELSE StringValue(<<"2">>)
          [] k = "Published" -> BoolValue(version = 1)
          [] k = "Alias" -> IF version = 1 THEN Absent ELSE StringValue(<<"o">>)
          [] k = "Codepoint" ->
                IF version = 1 THEN NumberValue(Num(57818, <<>>))
                ELSE StringValue(<<"5", "7", "8", "1", "9">>)]

RidA == <<"A">>

RidB == <<"B">>

RidC == <<"C">>

RowA == TableRow(RidA, NameA, 1)

RowA2 == TableRow(RidA, NameAB, 2)

RowB == TableRow(RidB, NameB, 1)

RowB2 == TableRow(RidB, NameBA, 2)

RowC == TableRow(RidC, <<"c">>, 1)

\* the row of C under the name of A
RowC2 == TableRow(RidC, NameA, 1)

\* a row whose Name cell is absent
RowNoName == [RowC EXCEPT !["RID"] = StringValue(<<"D">>), !["Name"] = Absent]

\* ListRowsResponse
Page(rows, token) == [rows |-> rows, next_page_token |-> token]

\* What the external table answers the list_rows calls of one pass with:
\* the pages in order, each naming the next by its place, the last with the
\* empty token.
Sources ==
    { <<Page(<<RowA, RowB2>>, <<2>>), Page(<<RowC>>, <<>>)>>,
      <<Page(<<RowA2, RowB>>, <<>>)>>,
      <<Page(<<RowB>>, <<>>)>>,
      <<Page(<<>>, <<>>)>>,
      <<Page(<<RowC2>>, <<>>)>>,
      <<Page(<<RowA>>, <<2>>), Page(<<RowNoName, RowC>>, <<>>)>> }

\* the ids of the models Db::upsert_icon is called with outside of a pass;
\* the decoder's is 0
CarriedIds == {0, 5, 7}

Models ==
    { [icon_into_model(try_from(r).icon) EXCEPT !.id = i] :
        r \in {RowA, RowA2, RowB, RowB2, RowC, RowC2}, i \in CarriedIds }

\* the models of the calls on the two tables together
StoreModels ==
    { [icon_into_model(try_from(r).icon) EXCEPT !.id = i] :
        r \in {RowA, RowB}, i \in {0, 5} }

NoUpsert == [kind |-> "NoUpsert"]

\* no sync pass was started and Db::upsert_icon was not called
SyncIdle ==
    /\ source = <<>>
    /\ sync = "Idle"
    /\ page_token = <<>>
    /\ batch = <<>>
    /\ cursor = 0
    /\ seen = {}
    /\ last_upsert = NoUpsert

(***************************************************************************)
(* The svgs table: the conversion of an Svg into a row, Db::upsert_svg,    *)
(* and Db::delete_icon with the foreign key from svgs to icons.            *)
(***************************************************************************)
IconWeights == {"Thin", "Light", "Regular", "Bold", "Fill", "Duotone"}

\* impl Display for IconWeight
weight_to_string(w) ==
    CASE w = "Thin" -> <<"thin">>
      [] w = "Light" -> <<"light">>
      [] w = "Regular" -> <<"regular">>
      [] w = "Bold" -> <<"bold">>
      [] w = "Fill" -> <<"fill">>
      [] w = "Duotone" -> <<"duotone">>

\* svg.into(): the svgs::Model of an Svg
svg_into_model(svg) ==
    [id |-> svg.id,
     icon_id |-> svg.icon_id,
     weight |-> weight_to_string(svg.weight),
     src |-> svg.src]

\* svgs.id is the primary key
SvgIdTaken(rows, id) == \E r \in rows : r.id = id

\* svgs.icon_id belongs to icons.id
IconExists(rows, icon_id) == \E r \in rows : r.id = icon_id

\* Db::upsert_svg(svg) on the svgs table svs, ics being the icons table:
\* INSERT of every column of the model with ON CONFLICT (icon_id, weight)
\* DO UPDATE of src; returns the table after it and the result
upsert_svg(svs, ics, svg) ==
    LET old == {r \in svs : r.icon_id = svg.icon_id /\ r.weight = svg.weight}
    IN  IF old # {}
        THEN LET r == CHOOSE x \in old : TRUE
             IN  [rows |-> (svs \ {r}) \cup {[r EXCEPT !.src = svg.src]},
                  res |-> [kind |-> "Ok", last_insert_id |-> r.id]]
        ELSE IF SvgIdTaken(svs, svg.id)
        THEN [rows |-> svs, res |-> DbErr("duplicate key value: svgs.id")]
        ELSE IF ~IconExists(ics, svg.icon_id)
        THEN [rows |-> svs, res |-> DbErr("foreign key violation: svgs.icon_id")]
        ELSE [rows |-> svs \cup {svg},
              res |-> [kind |-> "Ok", last_insert_id |-> svg.id]]

\* delete_icon on tables without the cascade
delete_icon_no_cascade(ics, svs, rid) ==
    LET gone == {r \in ics : r.rid = rid}
    IN  [icons |-> ics \ gone,
         svgs |-> svs,
         res |-> [kind |-> "Ok", rows_affected |-> Cardinality(gone)]]

\* Db::delete_icon(rid): DELETE of the icons of the rid; the svgs of a
\* deleted icon go with it (on_delete Cascade); returns both tables and the
\* number of icons deleted
delete_icon(ics, svs, rid) ==
    LET gone == {r \in ics : r.rid = rid}
    IN  [icons |-> ics \ gone,
         svgs |-> {v \in svs : \A r \in gone : v.icon_id # r.id},
         res |-> [kind |-> "Ok", rows_affected |-> Cardinality(gone)]]

\* the contents of two asset files
SvgSrcs == {<<"<", "1", ">">>, <<"<", "2", ">">>}

\* the ids of the svgs Db::upsert_svg is called with; sync_assets gives 0
SvgIds == {0, 3}

\* the icon ids they name
NamedIconIds == {0, 5}

SvgModels ==
    { svg_into_model([id |-> i, icon_id |-> k, weight |-> w, src |-> c]) :
        i \in SvgIds, k \in NamedIconIds, w \in {"Regular", "Bold"}, c \in SvgSrcs }

\* no svg is stored and Db::upsert_svg was not called
SvgIdle ==
    /\ svgs = {}
    /\ last_svg = NoUpsert

(***************************************************************************)
(* The service: main, the lock around the store handle, the handlers.      *)
(***************************************************************************)
Requests == {1, 2}

NoHandler == [pc |-> "None"]

\* the endpoints whose handlers take the lock
Endpoints == {"icons", "icon", "tags", "search", "health"}

\* the worker threads of the HttpServer; a handler runs on the thread of its
\* worker, and what matters to the lock is whether two handlers share one
Workers == {1, 2}

Free == [holder |-> 0, poisoned |-> FALSE]

\* the answers of a handler whose store call returned: 200 on Ok, 500 on
\* Err, and for GET /icon/{id} 404 on Ok(None)
Answers(endpoint) ==
    IF endpoint = "icon" THEN {200, 404, 500} ELSE {200, 500}

\* Db::fuzzy_search_icons, which search_icons calls: the search is not
\* implemented, as Db::query_icons, a todo!(), shows; the call panics
fuzzy_search_icons == [kind |-> "Panic", msg |-> "not yet implemented"]

\* another handler on the thread of r is inside lock(): the thread sleeps
ThreadBlocked(r) ==
    \E o \in Requests \ {r} :
        /\ handlers[o].pc \in {"Blocked", "Deadlocked"}
        /\ handlers[o].worker = handlers[r].worker

\* the lock is free and no request has come
ServeIdle ==
    /\ lock = Free
    /\ handlers = [r \in Requests |-> NoHandler]

(***************************************************************************)
(* The start of the service: main calls AppState::init, which opens the    *)
(* store, runs the table sync and the asset sync as the environment says,  *)
(* and then the HttpServer runs.                                           *)
(***************************************************************************)
\* the endings sync_assets takes off a file name, in the order of its
\* replace calls
AssetSuffixes ==
    <<"-duotone.svg", "-fill.svg", "-thin.svg", "-light.svg", "-bold.svg", ".svg">>

\* the icon name of an asset file: its file name without the endings; a
\* file name is written as its pieces, an ending being one piece
asset_name(file_name) ==
    SelectSeq(file_name, LAMBDA p : \A i \in 1..Len(AssetSuffixes) : p # AssetSuffixes[i])

AssetFile(file_name, weight, contents) ==
    [file_name |-> file_name, weight |-> weight, contents |-> contents]

\* what ./core/assets holds, the files in the order of IconWeight::ALL
AssetDirs ==
    { <<AssetFile(<<"b", ".svg">>, "Regular", <<"<", "1", ">">>),
        AssetFile(<<"z", "-bold.svg">>, "Bold", <<"<", "2", ">">>)>>,
      <<AssetFile(<<"a", ".svg">>, "Regular", <<"<", "1", ">">>),
        AssetFile(<<"a", "-bold.svg">>, "Bold", <<"<", "2", ">">>)>> }

\* PHOSPHOR_TABLE_SYNC = "true", PHOSPHOR_ASSETS_SYNC = "true", and the
\* asset files
Envs == [table_sync : BOOLEAN, assets_sync : BOOLEAN, files : AssetDirs]

\* the environment asks for no sync
NoSyncEnv ==
    [table_sync |-> FALSE, assets_sync |-> FALSE, files |-> CHOOSE d \in AssetDirs : TRUE]

\* Db::get_icon_by_name
get_icon_by_name(rows, name) ==
    IF \E r \in rows : r.name = name
    THEN Some(CHOOSE r \in rows : r.name = name)
    ELSE None

\* AppState::init runs
StartIdle ==
    /\ boot = "Init"
    /\ env = NoSyncEnv
    /\ file_cursor = 0

(***************************************************************************)
(* The parser's specification: a client writes a version range string one  *)
(* character at a time and the request deserializer parses it.             *)
(***************************************************************************)
NotParsed == [kind |-> "NotParsed"]

Init ==
    /\ input = <<>>
    /\ parsed = NotParsed
    /\ icons \in Stores
    /\ query = IconQueryDefault
    /\ result = NoResult
    /\ request = NoRequest
    /\ response = NoResponse
    /\ table_row = BaseRow
    /\ decoded = NotDecoded
    /\ SyncIdle
    /\ SvgIdle
    /\ ServeIdle
    /\ StartIdle

InitParse ==
    /\ Init
    /\ icons = CHOOSE s \in Stores : TRUE

\* the client extends the string of the v / released parameter
TypeChar ==
    /\ Len(input) < MaxLen
    /\ \E c \in Alphabet : input' = Append(input, c)
    /\ parsed' = NotParsed
    /\ UNCHANGED <<icons, query, result>>
    /\ UNCHANGED <<requestVars, decodeVars, syncVars>>
    /\ UNCHANGED <<svgVars, serveVars, startVars>>

\* deserialize_optional_icon_release_query on Some(s)
ParseRelease ==
    /\ parsed = NotParsed
    /\ parsed' = from_str(input)
    /\ UNCHANGED <<input, icons, query, result>>
    /\ UNCHANGED <<requestVars, decodeVars, syncVars>>
    /\ UNCHANGED <<svgVars, serveVars, startVars>>

NextParse == TypeChar \/ ParseRelease

SpecParse == InitParse /\ [][NextParse]_vars

(***************************************************************************)
(* The query specification: a request's IconQuery is put together field by *)
(* field, by the builder methods or by the deserializer, and Db::get_icons *)
(* runs it against the table.                                              *)
(***************************************************************************)
\* IconQuery::new() starts a query
NewQuery ==
    /\ result = NoResult
    /\ query = IconQueryDefault
    /\ query' = IconQueryNew
    /\ UNCHANGED <<input, parsed, icons, result>>
    /\ UNCHANGED <<requestVars, decodeVars, syncVars>>
    /\ UNCHANGED <<svgVars, serveVars, startVars>>

\* IconQuery::name, ::status, ::category, ::tags, ::published, ::released,
\* ::updated, ::deprecated, and the deserialized order and dir
SetField ==
    /\ result = NoResult
    /\ \E f \in Fields : \E v \in FieldValues(f) :
          /\ Clauses(with_field(query, f, v)) <= MaxClauses
          /\ query' = with_field(query, f, v)
    /\ UNCHANGED <<input, parsed, icons, result>>
    /\ UNCHANGED <<requestVars, decodeVars, syncVars>>
    /\ UNCHANGED <<svgVars, serveVars, startVars>>

\* Db::get_icons(&query)
GetIcons ==
    /\ result = NoResult
    /\ result' = get_icons(icons, query)
    /\ UNCHANGED <<input, parsed, icons, query>>
    /\ UNCHANGED <<requestVars, decodeVars, syncVars>>
    /\ UNCHANGED <<svgVars, serveVars, startVars>>

NextQuery == NewQuery \/ SetField \/ GetIcons

SpecQuery == Init /\ [][NextQuery]_vars

(***************************************************************************)
(* The decoder's specification: a row of the external table is written     *)
(* cell by cell, column after column, and Icon::try_from decodes it.       *)
(***************************************************************************)
InitDecode ==
    /\ Init
    /\ icons = CHOOSE s \in Stores : TRUE

\* the table's editor writes or clears one cell of the row
SetCell ==
    /\ decoded = NotDecoded
    /\ Cardinality(Changed(table_row)) < MaxCells
    /\ \E i \in 1..Len(ColumnOrder) : \E cell \in Cells(ColumnOrder[i]) :
          /\ \A j \in Changed(table_row) : j < i
          /\ cell # table_row[as_str(ColumnOrder[i])]
          /\ table_row' = [table_row EXCEPT ![as_str(ColumnOrder[i])] = cell]
    /\ UNCHANGED decoded
    /\ UNCHANGED <<parseVars, icons, queryVars, requestVars, syncVars>>
    /\ UNCHANGED <<svgVars, serveVars, startVars>>

\* Icon::try_from(table_row)
TryFrom ==
    /\ decoded = NotDecoded
    /\ decoded' = try_from(table_row)
    /\ UNCHANGED table_row
    /\ UNCHANGED <<parseVars, icons, queryVars, requestVars, syncVars>>
    /\ UNCHANGED <<svgVars, serveVars, startVars>>

NextDecode == SetCell \/ TryFrom

SpecDecode == InitDecode /\ [][NextDecode]_vars

(***************************************************************************)
(* The request specification: a client writes the parameters of a GET      *)
(* /icons request, the service answers it and the next request comes.      *)
(***************************************************************************)
\* the client adds a parameter to the query string
SetParam ==
    /\ response = NoResponse
    /\ Cardinality({i \in 1..Len(Params) : request[Params[i]] # None}) < MaxParams
    /\ \E i \in 1..Len(Params) : \E s \in ParamValues(Params[i]) :
          /\ \A j \in i..Len(Params) : request[Params[j]] = None
          /\ request' = [request EXCEPT ![Params[i]] = Some(s)]
    /\ UNCHANGED <<response, icons, queryVars>>
    /\ UNCHANGED <<parseVars, decodeVars, syncVars>>
    /\ UNCHANGED <<svgVars, serveVars, startVars>>

\* GET /icons: the QsQuery<IconQuery> extractor answers 400 Bad Request when
\* the query string does not deserialize; else all_icons runs Db::get_icons
AllIcons ==
    /\ response = NoResponse
    /\ LET de == deserialize_icon_query(request)
       IN  IF de.ok
           THEN /\ query' = de.val
                /\ result' = get_icons(icons, de.val)
                /\ response' = [kind |-> "Ok"]
           ELSE /\ response' = [kind |-> "BadRequest", msg |-> de.err]
                /\ UNCHANGED queryVars
    /\ UNCHANGED <<request, icons>>
    /\ UNCHANGED <<parseVars, decodeVars, syncVars>>
    /\ UNCHANGED <<svgVars, serveVars, startVars>>

\* the next request arrives
NewRequest ==
    /\ response # NoResponse
    /\ request' = NoRequest
    /\ response' = NoResponse
    /\ query' = IconQueryDefault
    /\ result' = NoResult
    /\ UNCHANGED icons
    /\ UNCHANGED <<parseVars, decodeVars, syncVars>>
    /\ UNCHANGED <<svgVars, serveVars, startVars>>

NextRequest == SetParam \/ AllIcons \/ NewRequest

SpecRequest == Init /\ [][NextRequest]_vars

(***************************************************************************)
(* The sync specification: the service starts with PHOSPHOR_TABLE_SYNC,    *)
(* AppState::sync_table fetches the external table page by page            *)
(* (TableClient::sync), decodes the rows and upserts the icons one by one; *)
(* between passes Db::upsert_icon is called with single icons.             *)
(***************************************************************************)
InitSync ==
    /\ input = <<>>
    /\ parsed = NotParsed
    /\ icons = {}
    /\ query = IconQueryDefault
    /\ result = NoResult
    /\ request = NoRequest
    /\ response = NoResponse
    /\ table_row = BaseRow
    /\ decoded = NotDecoded
    /\ SyncIdle
    /\ SvgIdle
    /\ ServeIdle
    /\ StartIdle

\* AppState::init calls sync_table, which calls TableClient::sync
StartSync ==
    /\ sync \notin {"Fetching", "Upserting"}
    /\ source' \in Sources
    /\ sync' = "Fetching"
    /\ page_token' = <<>>
    /\ batch' = <<>>
    /\ cursor' = 0
    /\ UNCHANGED <<icons, seen, last_upsert>>
    /\ UNCHANGED <<parseVars, queryVars, requestVars, decodeVars>>
    /\ UNCHANGED <<svgVars, serveVars, startVars>>

\* the loop of TableClient::sync ending after the first page
ListRowsOnce ==
    /\ sync = "Fetching"
    /\ LET inner == source[IF page_token = <<>> THEN 1 ELSE page_token[1]]
           results == [i \in 1..Len(inner.rows) |-> try_from(inner.rows[i])]
           bad == {i \in 1..Len(results) : results[i].kind # "Ok"}
           first_bad == CHOOSE i \in bad : \A j \in bad : i <= j
       IN  /\ page_token' = <<>>
           /\ IF bad # {}
              THEN /\ batch' = batch \o [i \in 1..(first_bad - 1) |-> results[i].icon]
                   /\ sync' = "Panicked"
              ELSE /\ batch' = batch \o [i \in 1..Len(results) |-> results[i].icon]
                   /\ sync' = IF batch' = <<>> THEN "Done" ELSE "Upserting"
    /\ UNCHANGED <<source, cursor, icons, seen, last_upsert>>
    /\ UNCHANGED <<parseVars, queryVars, requestVars, decodeVars>>
    /\ UNCHANGED <<svgVars, serveVars, startVars>>

\* One turn of the loop of TableClient::sync: list_rows answers a page, its
\* rows are decoded with Icon::try_from(row).unwrap(), which panics on the
\* first row that does not decode, and the loop ends on the empty token;
\* sync_table then takes the lock and starts to upsert.
ListRows ==
    /\ sync = "Fetching"
    /\ LET inner == source[IF page_token = <<>> THEN 1 ELSE page_token[1]]
           results == [i \in 1..Len(inner.rows) |-> try_from(inner.rows[i])]
           bad == {i \in 1..Len(results) : results[i].kind # "Ok"}
           first_bad == CHOOSE i \in bad : \A j \in bad : i <= j
       IN  /\ page_token' = inner.next_page_token
           /\ IF bad # {}
              THEN /\ batch' = batch \o [i \in 1..(first_bad - 1) |-> results[i].icon]
                   /\ sync' = "Panicked"
              ELSE /\ batch' = batch \o [i \in 1..Len(results) |-> results[i].icon]
                   /\ sync' = IF inner.next_page_token # <<>> THEN "Fetching"
                              ELSE IF batch' = <<>> THEN "Done"
                              ELSE "Upserting"
    /\ UNCHANGED <<source, cursor, icons, seen, last_upsert>>
    /\ UNCHANGED <<parseVars, queryVars, requestVars, decodeVars>>
    /\ UNCHANGED <<svgVars, serveVars, startVars>>

\* list_rows fails (tonic::Status): TableClient::sync returns BadRequest and
\* sync_table "Failed to sync table client"
ListRowsFails ==
    /\ sync = "Fetching"
    /\ sync' = "FetchFailed"
    /\ UNCHANGED <<source, page_token, batch, cursor, icons, seen, last_upsert>>
    /\ UNCHANGED <<parseVars, queryVars, requestVars, decodeVars>>
    /\ UNCHANGED <<svgVars, serveVars, startVars>>

\* the record of a call of Db::upsert_icon: the icon given, the result, and
\* whether the call before it was given the same icon
Upserted(icon, res) ==
    [icon |-> icon, res |-> res,
     repeated |-> IF last_upsert = NoUpsert THEN FALSE ELSE last_upsert.icon = icon]

\* the loop of sync_table as a mirror of the snapshot: the icons whose rids
\* are not in the batch are deleted with the first upsert
UpsertNextMirror ==
    /\ sync = "Upserting"
    /\ LET icon == icon_into_model(batch[cursor + 1])
           kept == {r \in icons : \E i \in 1..Len(batch) : batch[i].rid = r.rid}
           up == upsert_icon(kept, icon)
       IN  /\ icons' = up.rows
           /\ seen' = seen \cup {icon.rid}
           /\ last_upsert' = Upserted(icon, up.res)
           /\ IF up.res.kind = "Ok"
              THEN /\ cursor' = cursor + 1
                   /\ sync' = IF cursor + 1 = Len(batch) THEN "Done" ELSE "Upserting"
              ELSE /\ cursor' = cursor
                   /\ sync' = "UpsertFailed"
    /\ UNCHANGED <<source, page_token, batch>>
    /\ UNCHANGED <<parseVars, queryVars, requestVars, decodeVars>>
    /\ UNCHANGED <<svgVars, serveVars, startVars>>

\* the loop of sync_table going on after an error
UpsertNextAfterError ==
    /\ sync = "Upserting"
    /\ LET icon == icon_into_model(batch[cursor + 1])
           up == upsert_icon(icons, icon)
       IN  /\ icons' = up.rows
           /\ seen' = seen \cup {icon.rid}
           /\ last_upsert' = Upserted(icon, up.res)
           /\ cursor' = cursor + 1
           /\ sync' = IF cursor + 1 = Len(batch) THEN "Done" ELSE "Upserting"
    /\ UNCHANGED <<source, page_token, batch>>
    /\ UNCHANGED <<parseVars, queryVars, requestVars, decodeVars>>
    /\ UNCHANGED <<svgVars, serveVars, startVars>>

\* One turn of the loop of sync_table: db.upsert_icon(icon.clone().into());
\* an error ends the pass with "Failed to upsert icon".
UpsertNext ==
    /\ sync = "Upserting"
    /\ LET icon == icon_into_model(batch[cursor + 1])
           up == upsert_icon(icons, icon)
       IN  /\ icons' = up.rows
           /\ seen' = seen \cup {icon.rid}
           /\ last_upsert' = Upserted(icon, up.res)
           /\ IF up.res.kind = "Ok"
              THEN /\ cursor' = cursor + 1
                   /\ sync' = IF cursor + 1 = Len(batch) THEN "Done" ELSE "Upserting"
              ELSE /\ cursor' = cursor
                   /\ sync' = "UpsertFailed"
    /\ UNCHANGED <<source, page_token, batch>>
    /\ UNCHANGED <<parseVars, queryVars, requestVars, decodeVars>>
    /\ UNCHANGED <<svgVars, serveVars, startVars>>

\* Db::upsert_icon(icon), called while no pass holds the lock
UpsertIcon ==
    /\ sync \notin {"Fetching", "Upserting"}
    /\ \E icon \in Models :
          LET up == upsert_icon(icons, icon)
          IN  /\ icons' = up.rows
              /\ seen' = seen \cup {icon.rid}
              /\ last_upsert' = Upserted(icon, up.res)
    /\ UNCHANGED <<source, sync, page_token, batch, cursor>>
    /\ UNCHANGED <<parseVars, queryVars, requestVars, decodeVars>>
    /\ UNCHANGED <<svgVars, serveVars, startVars>>

NextSync == StartSync \/ ListRows \/ ListRowsFails \/ UpsertNext \/ UpsertIcon

SpecSync == InitSync /\ [][NextSync]_vars

(***************************************************************************)
(* The passes alone: sync_table runs pass after pass on the table, and no  *)
(* one else writes to it. A list_rows call that was sent is answered or    *)
(* fails: TableClient::sync awaits nothing else.                           *)
(***************************************************************************)
NextPass == StartSync \/ ListRows \/ ListRowsFails \/ UpsertNext

SpecPass ==
    /\ InitSync
    /\ [][NextPass]_vars
    /\ WF_vars(ListRowsFails \/ ListRows)

(***************************************************************************)
(* The store specification: Db::upsert_icon, Db::upsert_svg and            *)
(* Db::delete_icon are called in any order on the two tables.              *)
(***************************************************************************)
\* Db::upsert_svg(svg)
UpsertSvg ==
    /\ \E svg \in SvgModels :
          LET up == upsert_svg(svgs, icons, svg)
          IN  /\ svgs' = up.rows
              /\ last_svg' = [svg |-> svg, res |-> up.res]
    /\ UNCHANGED <<icons, parseVars, queryVars, requestVars, decodeVars, syncVars>>
    /\ UNCHANGED <<serveVars, startVars>>

\* Db::delete_icon(rid)
DeleteIcon ==
    /\ \E rid \in {RidA, RidB} :
          LET del == delete_icon(icons, svgs, rid)
          IN  /\ icons' = del.icons
              /\ svgs' = del.svgs
    /\ UNCHANGED <<last_svg, parseVars, queryVars, requestVars, decodeVars, syncVars>>
    /\ UNCHANGED <<serveVars, startVars>>

\* Db::upsert_icon(icon) with the icon of a row as the decoder made it or
\* with an id of its own
UpsertRowIcon ==
    /\ \E icon \in StoreModels :
          LET up == upsert_icon(icons, icon)
          IN  /\ icons' = up.rows
              /\ seen' = seen \cup {icon.rid}
              /\ last_upsert' = Upserted(icon, up.res)
    /\ UNCHANGED <<source, sync, page_token, batch, cursor>>
    /\ UNCHANGED <<parseVars, queryVars, requestVars, decodeVars>>
    /\ UNCHANGED <<svgVars, serveVars, startVars>>

NextStore == UpsertRowIcon \/ UpsertSvg \/ DeleteIcon

SpecStore == InitSync /\ [][NextStore]_vars

(***************************************************************************)
(* The serving specification: the HttpServer runs, requests come to the    *)
(* endpoints, and each handler takes the lock around the store handle,     *)
(* calls the store and answers.                                            *)
(***************************************************************************)
InitServe ==
    /\ input = <<>>
    /\ parsed = NotParsed
    /\ icons = CHOOSE s \in Stores : TRUE
    /\ query = IconQueryDefault
    /\ result = NoResult
    /\ request = NoRequest
    /\ response = NoResponse
    /\ table_row = BaseRow
    /\ decoded = NotDecoded
    /\ SyncIdle
    /\ SvgIdle
    /\ ServeIdle
    /\ boot = "Serving"
    /\ env = NoSyncEnv
    /\ file_cursor = 0

\* a request comes to an endpoint and a worker calls its handler
Call ==
    /\ boot = "Serving"
    /\ \E r \in Requests : \E e \in Endpoints : \E w \in Workers :
          /\ handlers[r].pc \in {"None", "Answered", "Panicked"}
          /\ handlers' = [handlers EXCEPT ![r] =
                [pc |-> "Called", endpoint |-> e, worker |-> w, status |-> 0]]
          /\ ~ThreadBlocked(r)'
    /\ UNCHANGED <<lock, icons, parseVars, queryVars, requestVars, decodeVars, syncVars>>
    /\ UNCHANGED <<svgVars, startVars>>

\* data.db.lock() in a handler. While another handler holds the guard the
\* call does not return: it waits, and on the thread of the holder it never
\* returns (it deadlocks or panics). On a poisoned lock it returns Err:
\* health_check answers 503 and the other handlers panic in unwrap().
\* With the guard, search_icons calls the unimplemented search and panics,
\* which poisons the lock; the other handlers await their store call.
Lock ==
    \E r \in Requests :
        /\ handlers[r].pc \in {"Called", "Blocked"}
        /\ ~ThreadBlocked(r)
        /\ LET h == handlers[r]
           IN  IF lock.holder # 0
               THEN /\ h.pc = "Called"
                    /\ \E pc \in IF handlers[lock.holder].worker = h.worker
                                 THEN {"Deadlocked", "Panicked"} ELSE {"Blocked"} :
                          handlers' = [handlers EXCEPT ![r].pc = pc]
                    /\ UNCHANGED lock
               ELSE IF lock.poisoned
               THEN /\ handlers' = [handlers EXCEPT ![r] =
                          IF h.endpoint = "health"
                          THEN [h EXCEPT !.pc = "Answered", !.status = 503]
                          ELSE [h EXCEPT !.pc = "Panicked"]]
                    /\ UNCHANGED lock
               ELSE IF h.endpoint = "search" /\ fuzzy_search_icons.kind = "Panic"
               THEN /\ handlers' = [handlers EXCEPT ![r].pc = "Panicked"]
                    /\ lock' = [holder |-> 0, poisoned |-> TRUE]
               ELSE /\ handlers' = [handlers EXCEPT ![r].pc = "Reading"]
                    /\ lock' = [lock EXCEPT !.holder = r]
    /\ UNCHANGED <<icons, parseVars, queryVars, requestVars, decodeVars, syncVars>>
    /\ UNCHANGED <<svgVars, startVars>>

\* the store call of a handler returns; the handler answers and drops the
\* guard
Answer ==
    \E r \in Requests :
        /\ handlers[r].pc = "Reading"
        /\ ~ThreadBlocked(r)
        /\ \E s \in Answers(handlers[r].endpoint) :
              handlers' = [handlers EXCEPT ![r].pc = "Answered", ![r].status = s]
        /\ lock' = [lock EXCEPT !.holder = 0]
    /\ UNCHANGED <<icons, parseVars, queryVars, requestVars, decodeVars, syncVars>>
    /\ UNCHANGED <<svgVars, startVars>>

NextServe == Call \/ Lock \/ Answer

SpecServe == InitServe /\ [][NextServe]_vars

(***************************************************************************)
(* The startup specification: main from its first line to the running      *)
(* HttpServer and the requests it serves.                                  *)
(***************************************************************************)
InitStartup ==
    /\ input = <<>>
    /\ parsed = NotParsed
    /\ icons = {}
    /\ query = IconQueryDefault
    /\ result = NoResult
    /\ request = NoRequest
    /\ response = NoResponse
    /\ table_row = BaseRow
    /\ decoded = NotDecoded
    /\ SyncIdle
    /\ SvgIdle
    /\ ServeIdle
    /\ boot = "DbInit"
    /\ env \in Envs
    /\ file_cursor = 0

\* Db::init().await: Ok, or Err and "Failed to initialize database"
DbInit ==
    /\ boot = "DbInit"
    /\ boot' \in {"TableSync", "Failed"}
    /\ UNCHANGED <<env, file_cursor, icons, parseVars, queryVars, requestVars, decodeVars>>
    /\ UNCHANGED <<syncVars, svgVars, serveVars>>

\* PHOSPHOR_TABLE_SYNC is "true": the pass is started whenever init is at
\* the table sync
StartTableSyncAgain ==
    /\ boot = "TableSync"
    /\ env.table_sync
    /\ StartSync

\* PHOSPHOR_TABLE_SYNC is "true": app.sync_table()
StartTableSync ==
    /\ boot = "TableSync"
    /\ env.table_sync
    /\ sync = "Idle"
    /\ StartSync

\* PHOSPHOR_TABLE_SYNC is not "true"
SkipTableSync ==
    /\ boot = "TableSync"
    /\ ~env.table_sync
    /\ boot' = "AssetsSync"
    /\ UNCHANGED <<env, file_cursor, icons, parseVars, queryVars, requestVars, decodeVars>>
    /\ UNCHANGED <<syncVars, svgVars, serveVars>>

\* app.sync_table().await with its error dropped
TableSyncReturnsAnyway ==
    /\ boot = "TableSync"
    /\ sync \in {"Done", "UpsertFailed", "FetchFailed", "Panicked"}
    /\ boot' = CASE sync = "Panicked" -> "Panicked"
                 [] OTHER -> "AssetsSync"
    /\ UNCHANGED <<env, file_cursor, icons, parseVars, queryVars, requestVars, decodeVars>>
    /\ UNCHANGED <<syncVars, svgVars, serveVars>>

\* app.sync_table().await?: on Ok init goes on, on Err it returns the error
\* and main with it; a panic of the pass ends the process
TableSyncReturns ==
    /\ boot = "TableSync"
    /\ sync \in {"Done", "UpsertFailed", "FetchFailed", "Panicked"}
    /\ boot' = CASE sync = "Done" -> "AssetsSync"
                 [] sync = "Panicked" -> "Panicked"
                 [] OTHER -> "Failed"
    /\ UNCHANGED <<env, file_cursor, icons, parseVars, queryVars, requestVars, decodeVars>>
    /\ UNCHANGED <<syncVars, svgVars, serveVars>>

\* PHOSPHOR_ASSETS_SYNC is not "true": init returns the AppState
SkipAssetsSync ==
    /\ boot = "AssetsSync"
    /\ ~env.assets_sync
    /\ boot' = "Serving"
    /\ UNCHANGED <<env, file_cursor, icons, parseVars, queryVars, requestVars, decodeVars>>
    /\ UNCHANGED <<syncVars, svgVars, serveVars>>

\* sync_assets: fs::read_dir or next_entry fails and init returns the error
ReadDirFails ==
    /\ boot = "AssetsSync"
    /\ env.assets_sync
    /\ file_cursor = 0
    /\ boot' = "Failed"
    /\ UNCHANGED <<env, file_cursor, icons, parseVars, queryVars, requestVars, decodeVars>>
    /\ UNCHANGED <<syncVars, svgVars, serveVars>>

\* One turn of the second loop of sync_assets: the icon of the file's name
\* is read and, if there is one, its svg is upserted with id 0;
\* upsert_svg(..).unwrap() panics on an error. A file without icon is
\* passed over.
SyncAsset ==
    /\ boot = "AssetsSync"
    /\ env.assets_sync
    /\ file_cursor < Len(env.files)
    /\ LET file == env.files[file_cursor + 1]
           found == get_icon_by_name(icons, asset_name(file.file_name))
       IN  IF found = None
           THEN /\ file_cursor' = file_cursor + 1
                /\ UNCHANGED <<boot, svgVars>>
           ELSE LET svg == svg_into_model([id |-> 0, icon_id |-> found.val.id,
                                           weight |-> file.weight, src |-> file.contents])
                    up == upsert_svg(svgs, icons, svg)
                IN  /\ svgs' = up.rows
                    /\ last_svg' = [svg |-> svg, res |-> up.res]
                    /\ IF up.res.kind = "Ok"
                       THEN /\ file_cursor' = file_cursor + 1
                            /\ UNCHANGED boot
                       ELSE /\ boot' = "Panicked"
                            /\ UNCHANGED file_cursor
    /\ UNCHANGED <<env, icons, parseVars, queryVars, requestVars, decodeVars>>
    /\ UNCHANGED <<syncVars, serveVars>>

\* sync_assets returns Ok, init returns the AppState and main runs the
\* HttpServer
AssetsSyncReturns ==
    /\ boot = "AssetsSync"
    /\ env.assets_sync
    /\ file_cursor = Len(env.files)
    /\ boot' = "Serving"
    /\ UNCHANGED <<env, file_cursor, icons, parseVars, queryVars, requestVars, decodeVars>>
    /\ UNCHANGED <<syncVars, svgVars, serveVars>>

NextStartup ==
    \/ DbInit
    \/ StartTableSync \/ SkipTableSync \/ ListRows \/ ListRowsFails \/ UpsertNext
    \/ TableSyncReturns
    \/ SkipAssetsSync \/ ReadDirFails \/ SyncAsset \/ AssetsSyncReturns
    \/ Call \/ Lock \/ Answer

SpecStartup == InitStartup /\ [][NextStartup]_vars

(***************************************************************************)
(* Claims about the version range parser.                                  *)
(***************************************************************************)
\* a token is numeric when it parses as a floating-point number
IsNumeric(t) == parse_f64(t).ok

NumVal(t) == parse_f64(t).val

\* the places of the input where a ".." stands
DotDots(s) == {i \in 1..(Len(s) - 1) : s[i] = "." /\ s[i + 1] = "."}

Before(s, i) == SubSeq(s, 1, i - 1)

After(s, i) == SubSeq(s, i + 2, Len(s))

\* the variant the grammar gives the input written as a ".." b at place i,
\* for the tokens a and b the claim is about
ShapeHolds(s, i, r, anyLower) ==
    LET a == Before(s, i)
        b == After(s, i)
        lowerOk(x) == anyLower \/ x[Len(x)] # "."
    IN  /\ (IsNumeric(a) /\ lowerOk(a) /\ IsNumeric(b)) => r = Range(NumVal(a), NumVal(b))
        /\ (a = <<>> /\ IsNumeric(b)) => r = LessThanOrEqual(NumVal(b))
        /\ (IsNumeric(a) /\ lowerOk(a) /\ b = <<>>) => r = GraterThanOrEqual(NumVal(a))

\* C1 as stated: for all numeric a and b, "a..b" yields Range(a, b), "..b"
\* yields LessThanOrEqual(b), "a.." yields GreaterThanOrEqual(a) and "a"
\* yields Exact(a), and no other variant.
C1_ShapesAnyNumeric ==
    parsed # NotParsed =>
        /\ \A i \in DotDots(input) : ShapeHolds(input, i, parsed, TRUE)
        /\ IsNumeric(input) => parsed = Exact(NumVal(input))

\* C1 amended: the same, for every numeric a that does not end with a dot
\* (a lower bound written "1." runs into the ".." that follows it: the split
\* is made at the first "..", so "1...5" is Range(1, .5) and "1..." fails).
C1_Shapes ==
    parsed # NotParsed =>
        /\ \A i \in DotDots(input) : ShapeHolds(input, i, parsed, FALSE)
        /\ IsNumeric(input) => parsed = Exact(NumVal(input))

\* C1 witness: "1.1..11" has been parsed, and to a Range
C1_Witness ==
    /\ input = <<"1", ".", "1", ".", ".", "1", "1">>
    /\ parsed.kind = "Range"

\* the input is, blanks around the bounds apart, exactly what the variant r
\* was built from
BuiltFromWholeInput(s, r) ==
    \/ IsNumeric(s) /\ r = Exact(NumVal(s))
    \/ \E i \in DotDots(s) :
          LET a == trim(Before(s, i))
              b == trim(After(s, i))
          IN  \/ a = <<>> /\ IsNumeric(b) /\ r = LessThanOrEqual(NumVal(b))
              \/ b = <<>> /\ IsNumeric(a) /\ r = GraterThanOrEqual(NumVal(a))
              \/ IsNumeric(a) /\ IsNumeric(b) /\ r = Range(NumVal(a), NumVal(b))

MalformedExamples ==
    { <<"1", ".", ".", "x">>,
      <<"x", ".", ".", "1">>,
      <<"1", ".", ".", "1", ".", ".", "1">>,
      <<".", ".">>,
      <<>> }

\* C2: the parser returns a variant only when every bound of the whole input
\* is numeric (no variant is built from a part of the input), and "1..x",
\* "x..1", "1..1..1", ".." and "" are errors.
C2_NoPartialParse ==
    /\ parsed.kind \notin {"NotParsed", "Err"} => BuiltFromWholeInput(input, parsed)
    /\ (parsed # NotParsed /\ input \in MalformedExamples) => parsed.kind = "Err"

\* C2 witness: "1..1..1" has been parsed and rejected
C2_Witness ==
    /\ input = <<"1", ".", ".", "1", ".", ".", "1">>
    /\ parsed.kind = "Err"

(***************************************************************************)
(* Claims about the query compiler.                                        *)
(***************************************************************************)
FilterDimensions ==
    {"name", "published", "released", "updated", "deprecated", "status", "category", "tags"}

Without(q, f) == [q EXCEPT ![f] = None]

\* the rows get_icons returns for q from the table at hand
Matched(q) == get_icons(icons, q).ids

RowOf(id) == CHOOSE r \in icons : r.id = id

\* a name made of wildcards only
BareWildcard(q) ==
    /\ q.name # None
    /\ q.name.val # <<>>
    /\ \A i \in 1..Len(q.name.val) : q.name.val[i] = "*"

\* C3: a filter with one more dimension set matches a subset of what the
\* same filter without that dimension matches.
C3_MonotonicNarrowing ==
    result.kind = "Ok" =>
        \A f \in FilterDimensions :
            query[f] # None => result.ids \subseteq Matched(Without(query, f))

\* C4: a filter whose name is the bare wildcard "*" returns what the same
\* filter without a name returns.
C4_BareWildcardIsNoNameConstraint ==
    (result.kind = "Ok" /\ query.name = Some(<<"*">>)) =>
        result.ids = Matched(Without(query, "name"))

IsPrefix(x, s) == Len(x) <= Len(s) /\ SubSeq(s, 1, Len(x)) = x

IsSuffix(x, s) == Len(x) <= Len(s) /\ SubSeq(s, Len(s) - Len(x) + 1, Len(s)) = x

Contains(s, x) == \E i \in 0..(Len(s) - Len(x)) : SubSeq(s, i + 1, i + Len(x)) = x

\* what a name with wildcards is documented to match
WildcardMatches(n, s) ==
    LET x == trim_matches(n)
    IN  IF starts_with_star(n) /\ ends_with_star(n) THEN Contains(s, x)
        ELSE IF ends_with_star(n) THEN IsPrefix(x, s)
        ELSE IF starts_with_star(n) THEN IsSuffix(x, s)
        ELSE s = n

\* C5: "*x*" matches the names that contain x, "x*" those that start with
\* x, "*x" those that end with x, and a name without wildcard the equal name.
C5_WildcardCompilation ==
    (result.kind = "Ok" /\ query.name # None /\ ~BareWildcard(query)) =>
        result.ids =
            {id \in Matched(Without(query, "name")) :
                WildcardMatches(query.name.val, RowOf(id).name)}

\* C6: with published True or absent every returned icon is published, with
\* False every returned icon is unpublished, with Any the field does not
\* constrain the result; IconQuery::new() selects what an absent published
\* selects.
C6_PublishedTriState ==
    result.kind = "Ok" =>
        /\ query.published \in {None, Some("True")} =>
                \A id \in result.ids : RowOf(id).published
        /\ query.published = Some("False") =>
                \A id \in result.ids : ~RowOf(id).published
        /\ query.published = Some("Any") =>
                result.ids = Matched(with_field(query, "published", "True"))
                                \cup Matched(with_field(query, "published", "False"))
        /\ query = IconQueryNew => result.ids = Matched(IconQueryDefault)

\* C7: a status, category or tags dimension set to the empty set returns
\* what the same filter without that dimension returns.
C7_EmptySetIsNoConstraint ==
    result.kind = "Ok" =>
        \A f \in {"status", "category", "tags"} :
            query[f] = Some(<<>>) => result.ids = Matched(Without(query, f))

VersionMatches(r, c) ==
    /\ c # None
    /\ CASE r.kind = "Exact" -> c.val = r.v
         [] r.kind = "Range" -> NumLe(r.a, c.val) /\ NumLe(c.val, r.b)
         [] r.kind = "LessThanOrEqual" -> NumLe(c.val, r.v)
         [] r.kind = "GraterThanOrEqual" -> NumLe(r.v, c.val)

VersionColumn(f) ==
    CASE f = "released" -> "released_at"
      [] f = "updated" -> "last_updated_at"
      [] f = "deprecated" -> "deprecated_at"

C10_Ordering ==
    result.kind = "Ok" =>
        /\ Len(result.order_by) = 2
        /\ result.order_by[1] =
                (CASE query.order \in {None, Some("Name")} -> "name"
                   [] query.order = Some("Status") -> "status"
                   [] query.order = Some("Release") -> "released_at"
                   [] query.order = Some("Code") -> "code")
        /\ result.order_by[2] =
                (CASE query.dir \in {None, Some("Asc")} -> "Asc"
                   [] query.dir = Some("Desc") -> "Desc")

\* C10 witness: a query filtered by name and ordered by Release was run
C10_Witness ==
    /\ result.kind = "Ok"
    /\ query.order = Some("Release")
    /\ query.name # None
    /\ result.order_by = <<"released_at", "Asc">>

(***************************************************************************)
(* Claims about the deserialization of a request.                          *)
(***************************************************************************)
\* the parameter is set and its deserializer fails on it
FieldRejected(p) == request[p] # None /\ ~deserialize_field(p, request[p].val).ok

\* the labels of a list parameter
Labels(p) == Elems([i \in 1..Len(csv_segments(request[p].val)) |-> Word(csv_segments(request[p].val)[i])])

\* the request holds a malformed version range or a value that is no
\* variant of the enum of its parameter
Malformed ==
    \/ request["v"] # None /\ from_str(request["v"].val).kind = "Err"
    \/ request["published"] # None /\ request["published"].val \notin {<<"true">>, <<"false">>, <<"any">>}
    \/ request["status"] # None /\ ~(Labels("status") \subseteq IconStatuses)
    \/ request["category"] # None /\ ~(Labels("category") \subseteq Categories)
    \/ request["order"] # None
          /\ request["order"].val \notin {<<"name">>, <<"status">>, <<"release">>, <<"code">>}
    \/ request["dir"] # None /\ request["dir"].val \notin {<<"asc">>, <<"desc">>}

\* C11: a request with a malformed version range or with a value that is no
\* variant of the enum of status, category, order, dir or published is
\* answered with a validation error and without a read of the store
\* (Db::get_icons is not run for it).
C11_MalformedRequestRejected ==
    (response # NoResponse /\ Malformed) =>
        /\ response.kind = "BadRequest"
        /\ result = NoResult

(***************************************************************************)
(* Claims about the decoder of the external table's rows.                  *)
(***************************************************************************)
Cell(c) == table_row[as_str(c)]

IsString(c) == Cell(c).kind = "StringValue"

\* C12: Icon::try_from(row) is an error exactly when the RID cell or the
\* Name cell is absent or not of the string kind (Missing RID before Missing
\* Name); whatever the kinds of the other cells, string, number, boolean,
\* list, null or absent, the row decodes, to the rid and the name of its
\* cells and to the default of every field whose cell is absent.
C12_RequiredCells ==
    decoded # NotDecoded =>
        /\ (decoded.kind = "ParseError") <=> (~IsString("Rid") \/ ~IsString("Name"))
        /\ decoded.kind = "ParseError" =>
              decoded.msg = IF ~IsString("Rid") THEN "Missing RID" ELSE "Missing Name"
        /\ decoded.kind # "ParseError" =>
              /\ decoded.kind = "Ok"
              /\ decoded.icon.rid = Cell("Rid").v
              /\ decoded.icon.name = Cell("Name").v
              /\ Cell("Alias") = Absent => decoded.icon.alias = None
              /\ Cell("Code") = Absent => decoded.icon.code = None
              /\ Cell("Status") = Absent => decoded.icon.status = "None"
              /\ Cell("SearchCategories") = Absent => decoded.icon.search_categories = <<>>
              /\ Cell("Category") = Absent => decoded.icon.category = "Unknown"
              /\ Cell("Tags") = Absent => decoded.icon.tags = <<>>
              /\ Cell("Notes") = Absent => decoded.icon.notes = None
              /\ Cell("ReleasedAt") = Absent => decoded.icon.released_at = None
              /\ Cell("LastUpdatedAt") = Absent => decoded.icon.last_updated_at = None
              /\ Cell("DeprecatedAt") = Absent => decoded.icon.deprecated_at = None
              /\ Cell("Published") = Absent => decoded.icon.published = FALSE

\* C12 witness: a row with a rid and a name was decoded although its
\* codepoint is a list and its published cell a number
C12_Witness ==
    /\ decoded.kind = "Ok"
    /\ Cell("Code").kind = "ListValue"
    /\ Cell("Published").kind = "NumberValue"
    /\ decoded.icon.code = None
    /\ decoded.icon.alias = None

\* C14: alias and notes decode to None for an absent cell and for a cell
\* that is the empty string, and to the raw string for every other string.
C14_OptionalStrings ==
    decoded.kind = "Ok" =>
        \A c \in {"Alias", "Notes"} :
            LET got == IF c = "Alias" THEN decoded.icon.alias ELSE decoded.icon.notes
            IN  /\ (Cell(c) = Absent \/ Cell(c) = StringValue(<<>>)) => got = None
                /\ (IsString(c) /\ Cell(c).v # <<>>) => got = Some(Cell(c).v)

DigitChar(d) == CHOOSE c \in {"0", "1", "2", "3", "4", "5", "6", "7", "8", "9"} : DigitVal(c) = d

\* the decimal digits of a natural number
RECURSIVE Decimal(_)
Decimal(n) ==
    IF n < 10 THEN <<DigitChar(n)>> ELSE Decimal(n \div 10) \o <<DigitChar(n % 10)>>

\* n is the value v with its fraction dropped
IsTruncationOf(n, v) ==
    CASE v \in {Huge, NaN} -> FALSE
      [] "neg" \in DOMAIN v -> n = 0 - v.neg.int
      [] OTHER -> n = v.int

\* the code of a string cell is the integer the string spells (an optional
\* sign and digits, nothing else) and None for every other string; the code
\* of a boolean, a list, a null and an absent cell is None
CodeOfOtherCells ==
    LET c == Cell("Code")
        code == decoded.icon.code
        body == IF c.v # <<>> /\ Head(c.v) \in {"+", "-"} THEN Tail(c.v) ELSE c.v
        spelt == body # <<>> /\ \A i \in 1..Len(body) : IsDigit(body[i])
        canon == IF strip_leading_zeros(body) = <<>> THEN <<"0">> ELSE strip_leading_zeros(body)
    IN  /\ c.kind = "StringValue" =>
              /\ code # None =>
                    /\ spelt
                    /\ Decimal(IF code.val < 0 THEN 0 - code.val ELSE code.val) = canon
                    /\ code.val < 0 => Head(c.v) = "-"
                    /\ (code.val > 0 /\ c.v # <<>>) => Head(c.v) # "-"
              /\ code = None => ~(spelt /\ Len(canon) <= 9)
        /\ c.kind \notin {"StringValue", "NumberValue"} => code = None

\* C15 as stated: a number cell decodes to its value truncated to an integer
C15_CodeTruncated ==
    decoded # NotDecoded =>
        /\ (IsString("Rid") /\ IsString("Name")) => decoded.kind = "Ok"
        /\ decoded.kind = "Ok" =>
              /\ Cell("Code").kind = "NumberValue" =>
                    /\ decoded.icon.code # None
                    /\ IsTruncationOf(decoded.icon.code.val, Cell("Code").v)
              /\ CodeOfOtherCells

\* C15: a number cell decodes to its value with the fraction dropped
\* (rounded toward zero) when that is an i32, to i32::MAX for a value above
\* the range of i32 and to 0 for NaN; a string cell to the integer it parses
\* as and to None when it does not parse; a boolean, a list, a null and an
\* absent cell to None; the cell never fails the row.
C15_Code ==
    decoded # NotDecoded =>
        /\ (IsString("Rid") /\ IsString("Name")) => decoded.kind = "Ok"
        /\ decoded.kind = "Ok" =>
              /\ Cell("Code").kind = "NumberValue" =>
                    /\ decoded.icon.code # None
                    /\ CASE Cell("Code").v = Huge -> decoded.icon.code.val = I32Max
                         [] Cell("Code").v = NaN -> decoded.icon.code.val = 0
                         [] OTHER -> IsTruncationOf(decoded.icon.code.val, Cell("Code").v)
              /\ CodeOfOtherCells

\* C15 witness: a codepoint above the range of i32 was decoded to i32::MAX
C15_Witness ==
    /\ decoded.kind = "Ok"
    /\ Cell("Code") = NumberValue(Huge)
    /\ decoded.icon.code = Some(I32Max)

\* C16: published decodes to true for a string cell that is "Y" in either
\* case and to false for "N", for the empty string, for an absent cell and
\* for every other value; the cell never fails the row.
C16_Published ==
    decoded # NotDecoded =>
        /\ (IsString("Rid") /\ IsString("Name")) => decoded.kind = "Ok"
        /\ decoded.kind = "Ok" =>
              decoded.icon.published =
                 (IsString("Published") /\ Cell("Published").v \in {<<"Y">>, <<"y">>})

\* C17: status decodes to the IconStatus whose name is the string of the
\* cell, letter for letter, and to None for every other string, for a cell
\* that is no string and for an absent cell; category likewise to the
\* FigmaCategory of that serde name or to Unknown; neither fails the row.
C17_Enums ==
    decoded # NotDecoded =>
        /\ (IsString("Rid") /\ IsString("Name")) => decoded.kind = "Ok"
        /\ decoded.kind = "Ok" =>
              /\ \A v \in IconStatuses :
                    decoded.icon.status = v <=>
                        \/ IsString("Status") /\ Cell("Status").v = <<v>>
                        \/ /\ v = "None"
                           /\ ~(IsString("Status") /\ \E w \in IconStatuses : Cell("Status").v = <<w>>)
              /\ \A v \in FigmaCategories :
                    decoded.icon.category = v <=>
                        \/ IsString("Category") /\ Cell("Category").v = figma_category_name(v)
                        \/ /\ v = "Unknown"
                           /\ ~(/\ IsString("Category")
                                /\ \E w \in FigmaCategories :
                                      Cell("Category").v = figma_category_name(w))

\* C17 witness: a row whose status is written "backlog" and whose category
\* is "Health & Wellness" was decoded to None and HealthAndWellness
C17_Witness ==
    /\ decoded.kind = "Ok"
    /\ Cell("Status") = StringValue(<<"backlog">>)
    /\ Cell("Category") = StringValue(<<"Health", " ", "&", " ", "Wellness">>)
    /\ decoded.icon.status = "None"
    /\ decoded.icon.category = "HealthAndWellness"

\* the values a multi-valued cell stands for: the string elements of a
\* list, in order, and the segments of a string between the ", "
ValuesOf(c) ==
    CASE c.kind = "ListValue" ->
            LET ss == SelectSeq(c.values, LAMBDA e : e.kind = "StringValue")
            IN  [i \in 1..Len(ss) |-> ss[i].v]
      [] c.kind = "StringValue" ->
            LET segs == split(c.v, <<",", " ">>)
            IN  [i \in 1..Len(segs) |-> trim(segs[i])]

\* C18: tags and search_categories decode a list cell element by element,
\* one value for each string element, in order, and a string cell segment
\* by segment of its split on ", ", one value for each segment, in order;
\* the values of search_categories are the Category of each.
C18_MultiValued ==
    decoded.kind = "Ok" =>
        /\ Cell("Tags").kind \in {"ListValue", "StringValue"} =>
              decoded.icon.tags = ValuesOf(Cell("Tags"))
        /\ Cell("SearchCategories").kind \in {"ListValue", "StringValue"} =>
              LET vs == ValuesOf(Cell("SearchCategories"))
              IN  decoded.icon.search_categories =
                      [i \in 1..Len(vs) |-> serde_plain_category(vs[i])]

(***************************************************************************)
(* Claims about the sync pass and the upsert.                              *)
(***************************************************************************)
\* the rows of all pages of a source, in order
RECURSIVE AllRows(_)
AllRows(pages) ==
    IF pages = <<>> THEN <<>> ELSE Head(pages).rows \o AllRows(Tail(pages))

\* the icons of the rows that decode, in the order of the rows
DecodableIcons(rows) ==
    LET ok == SelectSeq(rows, LAMBDA r : try_from(r).kind = "Ok")
    IN  [i \in 1..Len(ok) |-> try_from(ok[i]).icon]

\* C13: a row without rid or name is left out of the batch and the pass
\* goes on: it does not end at the row, the batch TableClient::sync returns
\* holds the icon of every other row of every page, in order, and the
\* icons of the batch are upserted.
C13_UndecodableRowsSkipped ==
    /\ sync # "Panicked"
    /\ sync \in {"Upserting", "UpsertFailed", "Done"} =>
          batch = DecodableIcons(AllRows(source))
    /\ sync = "Done" =>
          \A i \in 1..Len(batch) : \E r \in icons : r.rid = batch[i].rid

\* a step in which Db::upsert_icon was called
UpsertCalled == last_upsert' # last_upsert \/ icons' # icons \/ cursor' = cursor + 1

RECURSIVE UpsertAll(_, _)
UpsertAll(rows, b) ==
    IF b = <<>> THEN rows
    ELSE LET up == upsert_icon(rows, icon_into_model(Head(b)))
         IN  IF up.res.kind = "Ok" THEN UpsertAll(up.rows, Tail(b)) ELSE up.rows

\* a step in which Db::upsert_icon was called with the icon of the call
\* before it
UpsertRepeated == UpsertCalled /\ last_upsert'.repeated

\* a second pass over the batch of a pass leaves the table as the first
\* pass left it
PassIdempotent ==
    sync \in {"Upserting", "Done", "UpsertFailed"} =>
        UpsertAll(UpsertAll(icons, batch), batch) = UpsertAll(icons, batch)

Holds(rows, icon) ==
    \E r \in rows : r.rid = icon.rid /\ \A f \in UpdateColumns : r[f] = icon[f]

\* C22: the pass upserts the icons of the batch in the order of the rows of
\* the source, one per step; when the upsert of an icon fails, sync_table
\* returns the error, the icons after it are not upserted, and the table is
\* as the upserts before it left it: it still holds their icons.
C22_FailedUpsertAbortsBatch ==
    /\ [](sync \in {"Upserting", "UpsertFailed"} =>
             /\ batch = DecodableIcons(AllRows(source))
             /\ cursor < Len(batch))
    /\ [][sync = "Upserting" =>
            /\ last_upsert'.icon = icon_into_model(batch[cursor + 1])
            /\ IF last_upsert'.res.kind = "Err"
               THEN /\ sync' = "UpsertFailed"
                    /\ cursor' = cursor
                    /\ icons' = icons
                    /\ \A i \in 1..cursor : Holds(icons', icon_into_model(batch[i]))
               ELSE /\ sync' # "UpsertFailed"
                    /\ cursor' = cursor + 1
                    /\ Holds(icons', icon_into_model(batch[cursor + 1]))]_vars
    /\ [][sync = "UpsertFailed" /\ sync' = "UpsertFailed" => cursor' = cursor]_vars

\* the pass over A, B and C failed at B, after the upsert of A and before C
C22_Witness ==
    /\ sync = "UpsertFailed"
    /\ cursor = 1
    /\ Len(batch) = 3
    /\ last_upsert.icon = icon_into_model(batch[2])
    /\ last_upsert.res.kind = "Err"
    /\ Holds(icons, icon_into_model(batch[1]))
    /\ ~ \E r \in icons : r.rid = batch[3].rid

(***************************************************************************)
(* Claims about the paged fetch.                                           *)
(***************************************************************************)
\* the page list_rows answers a request with the token t with
PageAt(t) == source[IF t = <<>> THEN 1 ELSE t[1]]

\* the icons of the rows of a page up to the first row that does not decode
DecodedPrefix(rows) ==
    LET bad == {i \in 1..Len(rows) : try_from(rows[i]).kind # "Ok"}
        n == IF bad = {} THEN Len(rows)
             ELSE (CHOOSE i \in bad : \A j \in bad : i <= j) - 1
    IN  [i \in 1..n |-> try_from(rows[i]).icon]

\* C23: the first list_rows request of TableClient::sync carries the empty
\* token and each later one the next_page_token of the response before it;
\* the rows of each response are decoded onto the batch in order; the loop
\* goes on exactly while the token is not empty, and the batch it returns
\* holds the icons of the rows of all pages in page order; nothing is
\* upserted while pages are fetched; and a fetch comes to an end.
C23_PagedFetch ==
    /\ [][sync' = "Fetching" /\ sync # "Fetching" => page_token' = <<>> /\ batch' = <<>>]_vars
    /\ [][sync = "Fetching" /\ sync' # "FetchFailed" =>
            /\ page_token' = PageAt(page_token).next_page_token
            /\ batch' = batch \o DecodedPrefix(PageAt(page_token).rows)
            /\ sync' = "Fetching" => page_token' # <<>>
            /\ sync' \in {"Upserting", "Done"} => page_token' = <<>>]_vars
    /\ [][sync = "Fetching" =>
            icons' = icons /\ last_upsert' = last_upsert /\ cursor' = 0]_vars
    /\ [](sync \in {"Upserting", "Done", "UpsertFailed"} =>
            /\ page_token = <<>>
            /\ Len(batch) = Len(AllRows(source))
            /\ \A i \in 1..Len(batch) : batch[i] = try_from(AllRows(source)[i]).icon)
    /\ [](sync = "Fetching" => cursor = 0)
    /\ (sync = "Fetching") ~> (sync # "Fetching")

\* the two pages of A, B and C were fetched and no icon of them is upserted
\* yet
C23_Witness ==
    /\ sync = "Upserting"
    /\ Len(source) = 2
    /\ source[1].next_page_token = <<2>>
    /\ page_token = <<>>
    /\ Len(batch) = 3
    /\ cursor = 0

(***************************************************************************)
(* Claims about the svgs table.                                            *)
(***************************************************************************)
\* a step in which Db::upsert_svg was called
SvgUpserted == icons' = icons /\ (last_svg' # last_svg \/ svgs' # svgs)

\* the svgs of a table that stand for the pair of an svg
SamePair(rows, svg) == {r \in rows : r.icon_id = svg.icon_id /\ r.weight = svg.weight}

\* C26: at every moment the svgs table holds at most one svg per pair of
\* icon_id and weight, and the icon_id of every svg is the id of a stored
\* icon; upsert_svg with a stored pair writes the src given to the svg of
\* the pair and leaves its id and every other svg as they are; delete_icon
\* removes the svgs of the icons it removes and no others.
C26_SvgsUniqueAndOwned ==
    /\ [](/\ \A v \in svgs : SamePair(svgs, v) = {v}
          /\ \A v \in svgs : \E r \in icons : r.id = v.icon_id)
    /\ [][SvgUpserted /\ SamePair(svgs, last_svg'.svg) # {} =>
            LET svg == last_svg'.svg
            IN  \A old \in SamePair(svgs, svg) :
                    /\ last_svg'.res = [kind |-> "Ok", last_insert_id |-> old.id]
                    /\ svgs' = (svgs \ {old}) \cup {[old EXCEPT !.src = svg.src]}]_vars
    /\ [][icons' # icons /\ icons' \subseteq icons =>
            svgs' = {v \in svgs : \E r \in icons' : r.id = v.icon_id}]_vars

\* the svg of a pair was upserted under another id and with another src:
\* the svg stored for the pair has the src given and the id it had; and an
\* icon that was upserted is not stored
C26_Witness ==
    /\ last_svg # NoUpsert
    /\ last_svg.res.kind = "Ok"
    /\ \E v \in svgs :
          /\ SamePair(svgs, last_svg.svg) = {v}
          /\ v.id # last_svg.svg.id
          /\ v.src = last_svg.svg.src
    /\ Cardinality(svgs) = 2
    /\ \E rid \in seen : ~ \E r \in icons : r.rid = rid

(***************************************************************************)
(* Claims about what a pass leaves alone.                                  *)
(***************************************************************************)
\* C28: no step of a pass, and no upsert, removes an icon: every stored rid
\* stays stored, and an icon is another after a step only when the step
\* upserted an icon of its rid; so the icons whose rids are not in the
\* batch of a pass are after the pass what they were before it.
C28_SyncNeverDeletes ==
    [][\A r \in icons :
          /\ \E n \in icons' : n.rid = r.rid
          /\ r \notin icons' => UpsertCalled /\ last_upsert'.icon.rid = r.rid]_vars

\* a pass upserted the icons of its batch and an icon whose rid is not in
\* the batch is stored
C28_Witness ==
    /\ sync = "Done"
    /\ Len(batch) >= 1
    /\ cursor = Len(batch)
    /\ last_upsert = Upserted(icon_into_model(batch[cursor]), last_upsert.res)
    /\ \E r \in icons : \A i \in 1..Len(batch) : batch[i].rid # r.rid

(***************************************************************************)
(* Claims about the names of the stored icons.                             *)
(***************************************************************************)
\* another stored icon has the name of the icon given
NameOfAnother(rows, icon) == \E r \in rows : r.name = icon.name /\ r.rid # icon.rid

\* C29: at every moment no two stored icons have the same name; a call of
\* upsert_icon with an icon whose name is the name of a stored icon of
\* another rid returns an error and leaves the table as it is.
C29_NamesUnique ==
    /\ [](\A r \in icons : \A s \in icons : r.name = s.name => r = s)
    /\ [][UpsertCalled /\ NameOfAnother(icons, last_upsert'.icon) =>
            /\ last_upsert'.res.kind = "Err"
            /\ icons' = icons]_vars

\* the upsert of an icon that has the name of a stored icon of another rid
\* and an id of its own failed on the name
C29_Witness ==
    /\ last_upsert # NoUpsert
    /\ last_upsert.res = DbErr("duplicate key value: icons.name")
    /\ NameOfAnother(icons, last_upsert.icon)
    /\ ~ IdTaken(icons, last_upsert.icon.id)

(***************************************************************************)
(* Claims about the handlers and the lock.                                 *)
(***************************************************************************)
\* the handlers that read the store for a query
Readers == {r \in Requests : handlers[r].pc # "None" /\ handlers[r].endpoint = "icons"}

\* C24: while a GET /icons handler awaits its store read, no other GET
\* /icons handler is kept from starting its own: none waits in lock() for
\* the first to end, and none is lost there.
C24_ReadsIndependent ==
    \A r \in Readers : \A o \in Readers :
        handlers[r].pc = "Reading" =>
            /\ handlers[o].pc \notin {"Blocked", "Deadlocked"}
            /\ ThreadBlocked(o) => handlers[o].pc # "Called"

\* C27: whatever requests came, GET /search among them, the lock is not
\* poisoned: no handler has panicked with the guard, and GET /health has
\* not answered 503.
C27_LockStaysAcquirable ==
    /\ ~lock.poisoned
    /\ \A r \in Requests :
          handlers[r].pc = "Answered" /\ handlers[r].endpoint = "health" =>
              handlers[r].status # 503

(***************************************************************************)
(* Claims about the start of the service.                                  *)
(***************************************************************************)
\* a handler was called
Served == \E r \in Requests : handlers[r].pc # "None"

\* sync_assets has read an icon by name
AssetsRead == file_cursor > 0 \/ last_svg # NoUpsert

\* the pass is under way
PassRuns == sync \in {"Fetching", "Upserting"}

====
